---- MODULE Spec2Model ----
(***************************************************************************)
(* State-machine model of src/src/DriveTestDashboard.js: the CSV ingestion *)
(* path of the DriveTestDashboard component (handleCsvUpload, applyCsvData,*)
(* processCsvData, the dataSource effect), its aggregations, the local     *)
(* question answering (askLocalAI, onAskAssistant, callOpenAI) and the     *)
(* pure helpers they use.                                                  *)
(*                                                                         *)
(* Representation                                                          *)
(*  - A JavaScript value is a record [t, v, s]: t is its type tag, v its   *)
(*    numeric payload, s its text.  Numbers are fixed-point integers in    *)
(*    units of 1/Unit (Unit = 10000), so -70.04 is -700400.  NaN is a      *)
(*    value of its own (tag "nan"), as are undefined and null.             *)
(*  - Text is a sequence of one-character strings, so that trim,           *)
(*    toLowerCase, includes and parseFloat are computed on the characters. *)
(*  - An instant is an integer number of hours since 2025-08-01T00:00Z;    *)
(*    the host's local time zone is the variable tz (hours east of UTC).   *)
(*  - Math.random() is a draw in 0..99 (hundredths of the unit interval)   *)
(*    from a stream selected by a seed.                                    *)
(***************************************************************************)
EXTENDS Integers, Sequences, FiniteSets, Bags, TLC

(***************************************************************************)
(* Bounds of the model                                                     *)
(***************************************************************************)
MaxSeed  == 1      \* random streams 0..MaxSeed
PadRows  == 25     \* rows put in front of the row under study in a padded study file
MaxUploads == 2    \* file selections (header-detection parses) in one behaviour
MaxApplies == 1    \* Apply clicks (ingestion passes) in one behaviour
MaxEdits == 1      \* manual edits of the field mapping in one behaviour
MaxAsks  == 2      \* clicks on Ask in one behaviour
MaxVals  == 3      \* length of the arrays handed to percentile in its study
MaxHeaders == 3    \* columns of the files of the header study

Unit == 10000      \* fixed-point scale of the model's numbers

(***************************************************************************)
(* JavaScript values                                                       *)
(***************************************************************************)
Undefined == [t |-> "undefined", v |-> 0, s |-> <<>>]
Null      == [t |-> "null", v |-> 0, s |-> <<>>]
NaN       == [t |-> "nan", v |-> 0, s |-> <<>>]
Num(n)    == [t |-> "number", v |-> n, s |-> <<>>]
Str(txt)  == [t |-> "string", v |-> 0, s |-> txt]
DateObj(h) == [t |-> "date", v |-> h, s |-> <<>>]    \* valid Date object at instant h

IsNum(x) == x.t = "number"

\* ToBoolean(x): the truthiness used by &&, || and ?:
Truthy(x) ==
  CASE x.t = "undefined" -> FALSE
    [] x.t = "null"      -> FALSE
    [] x.t = "nan"       -> FALSE
    [] x.t = "number"    -> x.v # 0
    [] x.t = "string"    -> x.s # <<>>
    [] OTHER             -> TRUE

\* a || b
OrElse(a, b) == IF Truthy(a) THEN a ELSE b

\* a >= b on numbers; any comparison with NaN is false
Geq(a, b) == IsNum(a) /\ IsNum(b) /\ a.v >= b.v
Leq(a, b) == IsNum(a) /\ IsNum(b) /\ a.v <= b.v

(***************************************************************************)
(* Text                                                                    *)
(***************************************************************************)
Digits == {"0", "1", "2", "3", "4", "5", "6", "7", "8", "9"}

DigitVal(c) ==
  CASE c = "0" -> 0 [] c = "1" -> 1 [] c = "2" -> 2 [] c = "3" -> 3
    [] c = "4" -> 4 [] c = "5" -> 5 [] c = "6" -> 6 [] c = "7" -> 7
    [] c = "8" -> 8 [] c = "9" -> 9

DigitChar(d) == <<"0", "1", "2", "3", "4", "5", "6", "7", "8", "9">>[d + 1]

UpperCase == <<"A","B","C","D","E","F","G","H","I","J","K","L","M",
               "N","O","P","Q","R","S","T","U","V","W","X","Y","Z">>
LowerCase == <<"a","b","c","d","e","f","g","h","i","j","k","l","m",
               "n","o","p","q","r","s","t","u","v","w","x","y","z">>

LowerChar(c) ==
  IF \E i \in 1..26 : UpperCase[i] = c
  THEN LowerCase[CHOOSE i \in 1..26 : UpperCase[i] = c]
  ELSE c

\* String.prototype.toLowerCase
ToLowerCase(txt) == [i \in 1..Len(txt) |-> LowerChar(txt[i])]

\* String.prototype.includes
Includes(txt, pat) ==
  \E i \in 0..(Len(txt) - Len(pat)) :
     \A j \in 1..Len(pat) : txt[i + j] = pat[j]

RECURSIVE TrimStart(_)
TrimStart(txt) ==
  IF txt # <<>> /\ Head(txt) = " " THEN TrimStart(Tail(txt)) ELSE txt

RECURSIVE TrimEnd(_)
TrimEnd(txt) ==
  IF txt # <<>> /\ txt[Len(txt)] = " "
  THEN TrimEnd(SubSeq(txt, 1, Len(txt) - 1)) ELSE txt

\* String.prototype.trim
Trim(txt) == TrimEnd(TrimStart(txt))

\* decimal digits of a natural number, as text
RECURSIVE NatText(_)
NatText(n) ==
  IF n < 10 THEN <<DigitChar(n)>> ELSE NatText(n \div 10) \o <<DigitChar(n % 10)>>

(***************************************************************************)
(* parseFloat                                                              *)
(***************************************************************************)
RECURSIVE DigitsLen(_, _)
DigitsLen(txt, i) ==
  IF i <= Len(txt) /\ txt[i] \in Digits THEN 1 + DigitsLen(txt, i + 1) ELSE 0

RECURSIVE IntOf(_, _, _)
IntOf(txt, i, n) ==
  IF n = 0 THEN 0 ELSE IntOf(txt, i, n - 1) * 10 + DigitVal(txt[i + n - 1])

\* the first four fraction digits txt[i..i+n-1], in units of 1/Unit
FracOf(txt, i, n) ==
    (IF n >= 1 THEN DigitVal(txt[i]) * 1000 ELSE 0)
  + (IF n >= 2 THEN DigitVal(txt[i + 1]) * 100 ELSE 0)
  + (IF n >= 3 THEN DigitVal(txt[i + 2]) * 10 ELSE 0)
  + (IF n >= 4 THEN DigitVal(txt[i + 3]) ELSE 0)

\* parseFloat of a string: longest numeric prefix after leading blanks
ParseFloatText(txt) ==
  LET t0   == TrimStart(txt)
      neg  == t0 # <<>> /\ t0[1] = "-"
      sgn  == IF t0 # <<>> /\ t0[1] \in {"-", "+"} THEN 1 ELSE 0
      q    == 1 + sgn
      ni   == DigitsLen(t0, q)
      dot  == q + ni <= Len(t0) /\ t0[q + ni] = "."
      nf   == IF dot THEN DigitsLen(t0, q + ni + 1) ELSE 0
      mag  == IntOf(t0, q, ni) * Unit + FracOf(t0, q + ni + 1, nf)
  IN  IF ni + nf = 0 THEN NaN
      ELSE Num(IF neg THEN 0 - mag ELSE mag)

\* parseFloat(x): numbers pass, strings are parsed, everything else is NaN
ParseFloat(x) ==
  CASE x.t = "number" -> x
    [] x.t = "string" -> ParseFloatText(x.s)
    [] OTHER          -> NaN

\* parseFloat(x.toFixed(1)): round to one decimal place, ties away from zero
ToFixed1(x) ==
  IF ~IsNum(x) THEN x
  ELSE LET step == Unit \div 10
           mag  == IF x.v < 0 THEN 0 - x.v ELSE x.v
           r    == ((mag + step \div 2) \div step) * step
       IN  Num(IF x.v < 0 THEN 0 - r ELSE r)

(***************************************************************************)
(* Date: an instant h (hours since 2025-08-01T00:00Z) or the invalid date  *)
(***************************************************************************)
ValidDate(h) == [valid |-> TRUE, h |-> h]
InvalidDate  == [valid |-> FALSE, h |-> 0]

BaseDay1970 == 20301     \* 2025-08-01 is day 20301 after 1970-01-01
MsPerHour   == 3600000

\* day of the month of the civil date z days after 1970-01-01
DayOfMonth(z) ==
  LET z1  == z + 719468
      era == z1 \div 146097
      doe == z1 - era * 146097
      yoe == (doe - doe \div 1460 + doe \div 36524 - doe \div 146096) \div 365
      doy == doe - (365 * yoe + yoe \div 4 - yoe \div 100)
      mp  == (5 * doy + 2) \div 153
  IN  doy - (153 * mp + 2) \div 5 + 1

\* new Date(x) for a cell value x.  A Date object and a time stamp text that
\* names an absolute instant (tag "date") give that instant, a number is a
\* count of milliseconds since 1970, any other text is not a date.
NewDate(x) ==
  CASE x.t = "date"   -> ValidDate(x.v)
    [] x.t = "number" -> ValidDate((x.v \div Unit) \div MsPerHour - BaseDay1970 * 24)
    [] OTHER          -> InvalidDate

\* new Date('2025-08-01'): a date-only ISO text is midnight UTC
BaseDate == ValidDate(0)

LocalHours(d, zone) == d.h + zone
LocalDay(d, zone)   == LocalHours(d, zone) \div 24

\* Date.prototype.getHours / getDate / toDateString (local), toISOString (UTC)
GetHours(d, zone)     == LocalHours(d, zone) % 24
GetDate(d, zone)      == DayOfMonth(LocalDay(d, zone) + BaseDay1970)
ToDateString(d, zone) == LocalDay(d, zone)
ToISOString(d)        == d.h

\* d.setHours(hr, 0, 0, 0): same local day, local hour hr
SetHours(d, hr, zone) == ValidDate(LocalDay(d, zone) * 24 + hr - zone)

\* d.setDate(n): day n of d's local month (n past the month's end rolls over)
SetDate(d, n, zone)   == ValidDate(d.h + 24 * (n - GetDate(d, zone)))

(***************************************************************************)
(* Math.random(): draw j of row index in the stream of a seed, in 0..99.   *)
(* Stream 0 always draws the least value, stream 1 the greatest.           *)
(***************************************************************************)
Seeds == 0..MaxSeed

Random(seed, index, j) ==
  CASE seed = 0 -> 0
    [] seed = 1 -> 99
    [] OTHER    -> (17 * index + 31 * j + 7 * seed) % 100

(***************************************************************************)
(* Signal classification (processCsvData and generateDriveTestData)        *)
(***************************************************************************)
\* the rule with strict comparisons
SignalClass_strict(rsrp) ==
  IF IsNum(rsrp) /\ rsrp.v > -70 * Unit THEN 1
  ELSE IF IsNum(rsrp) /\ rsrp.v > -85 * Unit THEN 2
  ELSE IF IsNum(rsrp) /\ rsrp.v > -100 * Unit THEN 3
  ELSE 4

SignalClass(rsrp) ==
  IF Geq(rsrp, Num(-70 * Unit)) THEN 1
  ELSE IF Geq(rsrp, Num(-85 * Unit)) THEN 2
  ELSE IF Geq(rsrp, Num(-100 * Unit)) THEN 3
  ELSE 4

(***************************************************************************)
(* isValidCoordinate                                                       *)
(***************************************************************************)
isValidCoordinate(lat, lng) ==
  LET latitude  == ParseFloat(lat)
      longitude == ParseFloat(lng)
  IN  /\ IsNum(latitude)
      /\ IsNum(longitude)
      /\ latitude.v >= -90 * Unit
      /\ latitude.v <= 90 * Unit
      /\ longitude.v >= -180 * Unit
      /\ longitude.v <= 180 * Unit
      /\ latitude.v # 0
      /\ longitude.v # 0

(***************************************************************************)
(* processCsvData                                                          *)
(***************************************************************************)
CenterLat == -262041     \* -26.2041
CenterLon == 280473      \*  28.0473

Fields == {"timestamp", "rsrp", "rsrq", "sinr", "technology", "location",
           "throughput", "latitude", "longitude"}

EmptyMapping == [f \in Fields |-> <<>>]

\* row[key]: the cell of the column named key, undefined if there is none
Cell(row, key) == IF key \in DOMAIN row THEN row[key] ELSE Undefined

\* x.toString() for the values a technology column holds
RECURSIVE ToStringText(_)
ToStringText(x) ==
  CASE x.t = "string" -> x.s
    [] x.t = "number" ->
         IF x.v < 0 THEN <<"-">> \o ToStringText(Num(0 - x.v))
         ELSE NatText(x.v \div Unit)
    [] OTHER -> <<>>

\* lines 232-245: the Date of the row
FallbackTimestamp(index, zone) ==
  LET d0 == BaseDate
      d1 == SetHours(d0, index % 24, zone)
  IN  SetDate(d1, GetDate(d1, zone) + index \div 24, zone)

RowTimestamp(row, index, mapping, zone) ==
  IF mapping.timestamp # <<>> /\ Truthy(Cell(row, mapping.timestamp))
  THEN LET d == NewDate(Cell(row, mapping.timestamp))
       IN  IF ~d.valid THEN FallbackTimestamp(index, zone) ELSE d
  ELSE FallbackTimestamp(index, zone)

\* lines 252-257: mapped && row[col] !== undefined ? parseFloat(row[col]) || dflt : dflt
Measurement(row, col, dflt) ==
  IF col # <<>> /\ Cell(row, col) # Undefined
  THEN OrElse(ParseFloat(Cell(row, col)), dflt)
  ELSE dflt

RandomThroughput(seed, index) == Num((Random(seed, index, 0) + 50) * Unit)

\* lines 263-268
RowTechnology(row, mapping) ==
  IF mapping.technology # <<>> /\ Truthy(Cell(row, mapping.technology))
  THEN LET techValue == ToLowerCase(ToStringText(Cell(row, mapping.technology)))
       IN  IF \/ Includes(techValue, <<"5", "g">>)
              \/ Includes(techValue, <<"n", "r">>)
              \/ Includes(techValue, <<"n", "e", "w">>)
           THEN "5G" ELSE "4G"
  ELSE "4G"

\* lines 275-293: the coordinates read from the mapped columns, when the
\* columns are mapped and present and the pair passes isValidCoordinate
HasSourceCoordinates(row, mapping) ==
  /\ mapping.latitude # <<>>
  /\ mapping.longitude # <<>>
  /\ Cell(row, mapping.latitude) # Undefined
  /\ Cell(row, mapping.longitude) # Undefined
  /\ isValidCoordinate(ParseFloat(Cell(row, mapping.latitude)),
                       ParseFloat(Cell(row, mapping.longitude)))

\* lines 296-302
FallbackLat(index, seed) ==
  Num(CenterLat + (Random(seed, index, 1) - 50) * 5 + (index % 100) * 10)
FallbackLon(index, seed) ==
  Num(CenterLon + (Random(seed, index, 2) - 50) * 7 + ((index * 7) % 100) * 10)

SectorLabel(n) == Str(<<"S", "e", "c", "t", "o", "r", "_">> \o NatText(n))

\* the record of the row at (0-based) position index
ProcessRow(row, index, mapping, zone, seed) ==
  LET timestamp  == RowTimestamp(row, index, mapping, zone)
      rsrp       == Measurement(row, mapping.rsrp, Num(-80 * Unit))
      rsrq       == Measurement(row, mapping.rsrq, Num(-10 * Unit))
      sinr       == Measurement(row, mapping.sinr, Num(15 * Unit))
      throughput == Measurement(row, mapping.throughput, RandomThroughput(seed, index))
      src        == HasSourceCoordinates(row, mapping)
  IN  [ timestamp   |-> ToISOString(timestamp),
        date        |-> ToDateString(timestamp, zone),
        hour        |-> GetHours(timestamp, zone),
        day         |-> GetDate(timestamp, zone),
        rsrp        |-> ToFixed1(rsrp),
        rsrq        |-> ToFixed1(rsrq),
        sinr        |-> ToFixed1(sinr),
        signalClass |-> SignalClass(rsrp),
        technology  |-> RowTechnology(row, mapping),
        location    |-> IF mapping.location # <<>> /\ Truthy(Cell(row, mapping.location))
                        THEN Cell(row, mapping.location)
                        ELSE SectorLabel(index \div 24 + 1),
        throughput  |-> ToFixed1(throughput),
        lat         |-> IF src THEN ParseFloat(Cell(row, mapping.latitude))
                        ELSE FallbackLat(index, seed),
        lon         |-> IF src THEN ParseFloat(Cell(row, mapping.longitude))
                        ELSE FallbackLon(index, seed),
        originalRow |-> index ]

\* a normalizer that skips the rows whose rsrp cell does not parse
processCsvData_skipsUnparseable(csvData, mapping, zone, seed) ==
  LET kept == SelectSeq(csvData, LAMBDA row : IsNum(ParseFloat(Cell(row, mapping.rsrp))))
  IN  [i \in 1..Len(kept) |-> ProcessRow(kept[i], i - 1, mapping, zone, seed)]

\* csvData.map((row, index) => ...)
processCsvData(csvData, mapping, zone, seed) ==
  [i \in 1..Len(csvData) |-> ProcessRow(csvData[i], i - 1, mapping, zone, seed)]

(***************************************************************************)
(* generateDriveTestData                                                   *)
(***************************************************************************)
DemoDays == 31

Clamp(lo, x, hi) == IF x < lo THEN lo ELSE IF x > hi THEN hi ELSE x

DemoRecord(day, hour, zone, seed) ==
  LET index       == day * 24 + hour
      startDate   == BaseDate
      d1          == SetDate(startDate, GetDate(startDate, zone) + day, zone)
      currentDate == SetHours(d1, hour, zone)
      baseSignal  == -75 * Unit + Random(seed, index, 0) * 5000
      rsrp        == Num(Clamp(-120 * Unit,
                               baseSignal + (Random(seed, index, 1) - 50) * 2000,
                               -50 * Unit))
      rsrq        == Num(Clamp(-20 * Unit,
                               -10 * Unit + (Random(seed, index, 2) - 50) * 1000,
                               -3 * Unit))
      sinr        == Num(Clamp(-10 * Unit,
                               15 * Unit + (Random(seed, index, 3) - 50) * 2000,
                               30 * Unit))
  IN  [ timestamp   |-> ToISOString(currentDate),
        date        |-> ToDateString(currentDate, zone),
        hour        |-> hour,
        day         |-> day + 1,
        rsrp        |-> ToFixed1(rsrp),
        rsrq        |-> ToFixed1(rsrq),
        sinr        |-> ToFixed1(sinr),
        signalClass |-> SignalClass(rsrp),
        technology  |-> IF Random(seed, index, 4) > 30 THEN "5G" ELSE "4G",
        location    |-> SectorLabel(Random(seed, index, 5) \div 2 + 1),
        throughput  |-> ToFixed1(Num((Random(seed, index, 6) + 50) * Unit)),
        lat         |-> Num(CenterLat + (Random(seed, index, 7) - 50) * 5),
        lon         |-> Num(CenterLon + (Random(seed, index, 8) - 50) * 7) ]

generateDriveTestData(zone, seed) ==
  [i \in 1..(DemoDays * 24) |-> DemoRecord((i - 1) \div 24, (i - 1) % 24, zone, seed)]

(***************************************************************************)
(* Column detection (handleCsvUpload, lines 354-410)                       *)
(***************************************************************************)
latPatterns ==
  << <<"l", "a", "t">>,
     <<"l", "a", "t", "i", "t", "u", "d", "e">>,
     <<"L", "a", "t">>,
     <<"L", "a", "t", "i", "t", "u", "d", "e">>,
     <<"L", "A", "T">>,
     <<"L", "A", "T", "I", "T", "U", "D", "E">>,
     <<"l", "a", "t", "_", "d", "e", "g">>,
     <<"l", "a", "t", "i", "t", "u", "d", "e", "_", "d", "e", "g">>,
     <<"l", "a", "t", "_", "d", "e", "c", "i", "m", "a", "l">>,
     <<"l", "a", "t", "i", "t", "u", "d", "e", "_", "d", "e", "c", "i", "m", "a", "l">> >>

lngPatterns ==
  << <<"l", "n", "g">>,
     <<"l", "o", "n">>,
     <<"l", "o", "n", "g">>,
     <<"l", "o", "n", "g", "i", "t", "u", "d", "e">>,
     <<"L", "n", "g">>,
     <<"L", "o", "n">>,
     <<"L", "o", "n", "g">>,
     <<"L", "o", "n", "g", "i", "t", "u", "d", "e">>,
     <<"L", "N", "G">>,
     <<"L", "O", "N">>,
     <<"L", "O", "N", "G">>,
     <<"L", "O", "N", "G", "I", "T", "U", "D", "E">>,
     <<"l", "n", "g", "_", "d", "e", "g">>,
     <<"l", "o", "n", "_", "d", "e", "g">>,
     <<"l", "o", "n", "g", "i", "t", "u", "d", "e", "_", "d", "e", "g">>,
     <<"l", "o", "n", "g", "_", "d", "e", "c", "i", "m", "a", "l">> >>

\* the first pattern, in pattern order, that is one of the headers; else empty
RECURSIVE FirstPattern(_, _)
FirstPattern(patterns, headers) ==
  IF patterns = <<>> THEN <<>>
  ELSE IF \E i \in 1..Len(headers) : headers[i] = Head(patterns)
       THEN Head(patterns)
       ELSE FirstPattern(Tail(patterns), headers)

detectCoordinateColumns(headers) ==
  [latCol |-> FirstPattern(latPatterns, headers),
   lngCol |-> FirstPattern(lngPatterns, headers)]

\* the cue test of each field on the lower-cased header
HeaderCue(field, lower) ==
  CASE field = "timestamp"  -> Includes(lower, <<"t", "i", "m", "e">>) \/ Includes(lower, <<"d", "a", "t", "e">>) \/ Includes(lower, <<"t", "i", "m", "e", "s", "t", "a", "m", "p">>)
    [] field = "rsrp"       -> Includes(lower, <<"r", "s", "r", "p">>) \/ (Includes(lower, <<"s", "i", "g", "n", "a", "l">>) /\ Includes(lower, <<"s", "t", "r", "e", "n", "g", "t", "h">>))
    [] field = "rsrq"       -> Includes(lower, <<"r", "s", "r", "q">>) \/ Includes(lower, <<"q", "u", "a", "l", "i", "t", "y">>)
    [] field = "sinr"       -> Includes(lower, <<"s", "i", "n", "r">>) \/ Includes(lower, <<"s", "n", "r">>)
    [] field = "technology" -> Includes(lower, <<"t", "e", "c", "h">>) \/ Includes(lower, <<"r", "a", "t">>) \/ Includes(lower, <<"g", "e", "n", "e", "r", "a", "t", "i", "o", "n">>) \/ Includes(lower, <<"t", "e", "c", "h", "n", "o", "l", "o", "g", "y">>)
    [] field = "location"   -> Includes(lower, <<"l", "o", "c", "a", "t", "i", "o", "n">>) \/ Includes(lower, <<"s", "e", "c", "t", "o", "r">>) \/ Includes(lower, <<"c", "e", "l", "l">>) \/ Includes(lower, <<"s", "i", "t", "e">>)
    [] field = "throughput" -> Includes(lower, <<"t", "h", "r", "o", "u", "g", "h", "p", "u", "t">>) \/ Includes(lower, <<"s", "p", "e", "e", "d">>) \/ Includes(lower, <<"r", "a", "t", "e">>) \/ Includes(lower, <<"k", "b", "p", "s">>) \/ Includes(lower, <<"m", "b", "p", "s">>)
    [] OTHER                -> FALSE

\* an iteration that lets a later matching header overwrite the field
AutoMapStep_lastWins(m, h) ==
  [f \in Fields |->
     IF HeaderCue(f, ToLowerCase(h)) THEN h ELSE m[f]]

\* one iteration of headers.forEach(h => ...)
AutoMapStep(m, h) ==
  [f \in Fields |->
     IF m[f] = <<>> /\ HeaderCue(f, ToLowerCase(h)) THEN h ELSE m[f]]

RECURSIVE AutoMapFold(_, _)
AutoMapFold(m, headers) ==
  IF headers = <<>> THEN m
  ELSE AutoMapFold(AutoMapStep(m, Head(headers)), Tail(headers))

\* autoMapping as built by the complete callback of handleCsvUpload
AutoMapping(headers) ==
  LET c  == detectCoordinateColumns(headers)
      m0 == [EmptyMapping EXCEPT !.latitude = c.latCol, !.longitude = c.lngCol]
  IN  AutoMapFold(m0, headers)

(***************************************************************************)
(* Papa.parse(file, {header: true, dynamicTyping: true, ...})              *)
(* A file is its header line (texts) and its rows (sequences of cells,     *)
(* already typed by dynamicTyping).                                        *)
(***************************************************************************)
NoFile == [name |-> "", headers |-> <<>>, rows |-> <<>>]

Min(a, b) == IF a < b THEN a ELSE b

\* the row object: one key per header, the cell of the last column so named
RowObject(headers, cells) ==
  LET n == Min(Len(headers), Len(cells))
  IN  [h \in {headers[i] : i \in 1..n} |->
         cells[CHOOSE i \in 1..n : headers[i] = h /\ \A j \in (i + 1)..n : headers[j] # h]]

\* results of a parse; trimHeaders is the transformHeader of handleCsvUpload
PapaParse(file, trimHeaders) ==
  LET fields == [i \in 1..Len(file.headers) |->
                   IF trimHeaders THEN Trim(file.headers[i]) ELSE file.headers[i]]
  IN  [fields |-> fields,
       data   |-> [i \in 1..Len(file.rows) |-> RowObject(fields, file.rows[i])]]

(***************************************************************************)
(* State of the component                                                  *)
(***************************************************************************)
VARIABLES
  data,           \* useState([]): the Dataset
  selectedTech,   \* "All" | "4G" | "5G"
  csvFile,        \* the selected File, or NoFile (null)
  isLoading,
  dataSource,     \* "synthetic" | "csv"
  csvHeaders,
  error,          \* "null" or the message
  fieldMapping,
  parses,         \* bag of the Papa.parse calls in flight, each with the values its callbacks closed over
  effectPending,  \* the useEffect([dataSource]) callback is scheduled
  tz,             \* local time zone of the host, hours east of UTC
  nUploads,       \* files selected so far
  nApplies,       \* ingestion passes started so far
  nEdits,         \* manual mapping edits so far
  aiMessages,     \* the chat transcript
  aiInput,        \* the text of the question box
  useLLM,         \* the "refine with LLM" checkbox
  openaiKey,      \* the API key box
  llmCalls,       \* bag of the callOpenAI fetches in flight, each with its localAnswer
  subsetSeen,     \* the local variable subset of the latest askLocalAI call, when it returned
  pctl,           \* the latest call of percentile in its study: arguments and result
  nAsks           \* clicks on Ask (or Enter in the question box) so far

\* the state of the assistant panel
aiVars == <<aiMessages, aiInput, useLLM, openaiKey, llmCalls, subsetSeen, pctl, nAsks>>

vars == <<data, selectedTech, csvFile, isLoading, dataSource, csvHeaders, error,
          fieldMapping, parses, effectPending, tz, nUploads, nApplies, nEdits,
          aiMessages, aiInput, useLLM, openaiKey, llmCalls, subsetSeen, pctl, nAsks>>

TimeZones == {-5, 0, 2}
HostZone  == 2          \* the zone of the host in the behaviours of Spec (UTC+2)
EditFields == {"rsrp"}  \* the mapping rows edited by hand in the behaviours of Spec
Techs     == {"All", "4G", "5G"}

ErrNoData  == "Failed to process CSV: No data found in CSV file"
ErrNoValid == "Failed to process CSV: No valid data could be processed from CSV"
ErrParse   == "Failed to parse CSV file"

\* useMemo filteredData
filteredData ==
  SelectSeq(data, LAMBDA item : selectedTech = "All" \/ item.technology = selectedTech)

(***************************************************************************)
(* Helpers of the analytics: clampInt, avg, groupBy, percentile            *)
(* A quotient a / b of the code is kept exact, as the record               *)
(* [num |-> a, den |-> b] in units of 1/Unit; 0 / 0 is NaN.                *)
(***************************************************************************)
Max(a, b) == IF a > b THEN a ELSE b

Whitespace == {" ", "\t", "\n"}

IsWordChar(c) ==
  \/ c \in Digits
  \/ c = "_"
  \/ \E i \in 1..26 : c = LowerCase[i] \/ c = UpperCase[i]

\* Number(text): the whole trimmed text must be a decimal literal; "" is 0
NumberText(txt) ==
  LET t0  == Trim(txt)
      sgn == IF t0 # <<>> /\ t0[1] \in {"-", "+"} THEN 1 ELSE 0
      ni  == DigitsLen(t0, 1 + sgn)
      dot == 1 + sgn + ni <= Len(t0) /\ t0[1 + sgn + ni] = "."
      nf  == IF dot THEN DigitsLen(t0, 2 + sgn + ni) ELSE 0
      len == sgn + ni + (IF dot THEN 1 ELSE 0) + nf
  IN  IF t0 = <<>> THEN Num(0)
      ELSE IF ni + nf > 0 /\ len = Len(t0) THEN ParseFloatText(t0)
      ELSE NaN

\* Number(x) for the values a record field can hold
NumberOf(x) ==
  CASE x.t = "number"    -> x
    [] x.t = "string"    -> NumberText(x.s)
    [] x.t = "null"      -> Num(0)
    [] x.t = "undefined" -> NaN
    [] x.t = "nan"       -> NaN

\* the low 32 bits of a decimal numeral, as the two 16-bit halves <<hi, lo>>
RECURSIVE Halves32(_, _)
Halves32(txt, n) ==
  IF n = 0 THEN <<0, 0>>
  ELSE LET h  == Halves32(txt, n - 1)
           lo == h[2] * 10 + DigitVal(txt[n])
           hi == h[1] * 10 + lo \div 65536
       IN  <<hi % 65536, lo % 65536>>

\* n | 0 for what a capture group can be: a decimal numeral (ToInt32 of its
\* value, exact below 2^53) or undefined (0)
ToInt32(x) ==
  IF x.t = "undefined" THEN 0
  ELSE LET h == Halves32(x.s, Len(x.s))
       IN  IF h[1] >= 32768 THEN (h[1] - 65536) * 65536 + h[2] ELSE h[1] * 65536 + h[2]

\* clampInt, line 93
clampInt(n, lo, hi) == Max(lo, Min(hi, ToInt32(n)))

RECURSIVE SumV(_)
SumV(vals) == IF vals = <<>> THEN 0 ELSE Head(vals).v + SumV(Tail(vals))

\* a / b
Div(a, b) ==
  CASE b # 0          -> [t |-> "ratio", num |-> a, den |-> b]
    [] b = 0 /\ a = 0 -> NaN

\* arr.map(x => Number(x[key])).filter(Number.isFinite)
FiniteVals(arr, key) ==
  SelectSeq([i \in 1..Len(arr) |-> NumberOf(arr[i][key])], IsNum)

\* avg, lines 99-103
avg(arr, key) ==
  LET vals == FiniteVals(arr, key)
  IN  IF Len(vals) = 0 THEN Num(0) ELSE Div(SumV(vals), Len(vals))

\* the value of a mean in units of 1/Unit, as a fraction <<numerator, denominator>>
Frac(m) == IF m.t = "ratio" THEN <<m.num, m.den>> ELSE <<m.v, 1>>

\* Array.prototype.sort with a comparator that is a total preorder: Before(a, b)
\* is "compare(a, b) < 0"; the sort is stable
StableSort(seq, Before(_, _)) ==
  LET n == Len(seq)
      rank(i) == 1 + Cardinality({j \in 1..n :
                       \/ Before(seq[j], seq[i])
                       \/ (j < i /\ ~Before(seq[i], seq[j]))})
  IN  [k \in 1..n |-> seq[CHOOSE i \in 1..n : rank(i) = k]]

\* the property key of a location value
KeyText(x) ==
  CASE x.t = "string" -> x.s
    [] x.t = "number" /\ x.v % Unit = 0 /\ x.v >= 0 -> NatText(x.v \div Unit)
    [] x.t = "number" /\ x.v % Unit = 0 /\ x.v < 0  -> <<"-">> \o NatText((0 - x.v) \div Unit)

\* an integer-like key (array index): Object.entries lists these first, ascending
IsIndexKey(k) ==
  /\ k # <<>>
  /\ Len(k) <= 9
  /\ \A i \in 1..Len(k) : k[i] \in Digits
  /\ (Len(k) = 1 \/ k[1] # "0")

\* groupBy, lines 104-110, as Object.entries lists it: <<key, rows>> pairs
groupBy(arr, key) ==
  LET keyAt(i) == KeyText(arr[i][key])
      firsts   == SelectSeq([i \in 1..Len(arr) |-> i],
                            LAMBDA i : \A j \in 1..(i - 1) : keyAt(j) # keyAt(i))
      keys     == [i \in 1..Len(firsts) |-> keyAt(firsts[i])]
      idxKeys  == StableSort(SelectSeq(keys, IsIndexKey),
                             LAMBDA a, b : IntOf(a, 1, Len(a)) < IntOf(b, 1, Len(b)))
      strKeys  == SelectSeq(keys, LAMBDA k : ~IsIndexKey(k))
      ordered  == idxKeys \o strKeys
  IN  [i \in 1..Len(ordered) |->
         [loc  |-> ordered[i],
          rows |-> SelectSeq(arr, LAMBDA r : KeyText(r[key]) = ordered[i])]]

\* Math.round(p / 100 * m)
RoundPct(p, m) == (p * m + 50) \div 100

\* an index computed without the clamp to [0, n - 1]
percentile_unclamped(arr, key, p) ==
  LET vals == StableSort(FiniteVals(arr, key), LAMBDA a, b : a.v < b.v)
      idx  == RoundPct(p, Len(vals) - 1)
  IN  IF Len(vals) = 0 THEN Num(0)
      ELSE IF idx + 1 \in 1..Len(vals) THEN vals[idx + 1] ELSE Undefined

\* percentile, lines 111-116
percentile(arr, key, p) ==
  LET vals == StableSort(FiniteVals(arr, key), LAMBDA a, b : a.v < b.v)
      idx  == Min(Len(vals) - 1, Max(0, RoundPct(p, Len(vals) - 1)))
  IN  IF Len(vals) = 0 THEN Num(0) ELSE vals[idx + 1]

(***************************************************************************)
(* Aggregations over filteredData                                          *)
(***************************************************************************)
RECURSIVE SumField(_, _)
SumField(seq, key) ==
  IF seq = <<>> THEN 0 ELSE Head(seq)[key].v + SumField(Tail(seq), key)

Class1Count(seq) == Len(SelectSeq(seq, LAMBDA r : r.signalClass = 1))

\* a bucket that divides without looking at its count
Bucket_unguarded(rows) ==
  [count             |-> Len(rows),
   class1Count       |-> Class1Count(rows),
   class1Percentage  |-> Div(Class1Count(rows) * 100, Len(rows)),
   avgRSRP           |-> Div(SumField(rows, "rsrp"), Len(rows)),
   avgThroughputMbps |-> Div(SumField(rows, "throughput"), Len(rows))]

\* the derived metrics of one bucket, lines 491-500 and 510-519
Bucket(rows) ==
  LET totalCount == Len(rows)
  IN  [count             |-> totalCount,
       class1Count       |-> Class1Count(rows),
       class1Percentage  |-> IF totalCount > 0 THEN Div(Class1Count(rows) * 100, totalCount) ELSE Num(0),
       avgRSRP           |-> IF totalCount > 0 THEN Div(SumField(rows, "rsrp"), totalCount) ELSE Num(0),
       avgThroughputMbps |-> IF totalCount > 0 THEN Div(SumField(rows, "throughput"), totalCount) ELSE Num(0)]

\* useMemo hourlyData, lines 488-503: bucket i is hour i - 1
hourlyData ==
  [i \in 1..24 |-> Bucket(SelectSeq(filteredData, LAMBDA item : item.hour = i - 1))]

\* useMemo dailyData, lines 506-522: bucket i is day i
dailyData ==
  [i \in 1..31 |-> Bucket(SelectSeq(filteredData, LAMBDA item : item.day = i))]

(***************************************************************************)
(* The patterns of askLocalAI.  Each matcher returns the leftmost match of *)
(* its regular expression, as [ok, g1, g2]: the captured numerals.  The    *)
(* quantifiers are greedy; where a shorter repetition could only be tried  *)
(* on backtracking, the character that follows makes it fail as well (a    *)
(* digit cannot start "and", "sector", "th" or follow \b), so the greedy   *)
(* choice decides the match.                                               *)
(***************************************************************************)
MatchAt(txt, i, pat) ==
  /\ i >= 1
  /\ i + Len(pat) - 1 <= Len(txt)
  /\ \A j \in 1..Len(pat) : txt[i + j - 1] = pat[j]

\* String.prototype.startsWith
StartsWith(txt, pat) == MatchAt(txt, 1, pat)

\* the position after \s* read from position i
RECURSIVE SkipSpaces(_, _)
SkipSpaces(txt, i) ==
  IF i <= Len(txt) /\ txt[i] \in Whitespace THEN SkipSpaces(txt, i + 1) ELSE i

\* \b in front of position i
WordBoundary(txt, i) ==
  LET before == i > 1 /\ i - 1 <= Len(txt) /\ IsWordChar(txt[i - 1])
      after  == i >= 1 /\ i <= Len(txt) /\ IsWordChar(txt[i])
  IN  before # after

NoMatch == [ok |-> FALSE, g1 |-> <<>>, g2 |-> <<>>]

\* the match at the least position of 1..Len(txt) where At(i) matches
Leftmost(txt, At(_)) ==
  LET hits == {i \in 1..Len(txt) : At(i).ok}
  IN  IF hits = {} THEN NoMatch
      ELSE At(CHOOSE i \in hits : \A j \in hits : i <= j)

\* /between\s+(\d{1,2})\s*(?:and|-|to)\s*(\d{1,2})/ at position i
HourRangeAt(q, i) ==
  LET a   == i + 7
      b   == SkipSpaces(q, a)
      n1  == Min(2, DigitsLen(q, b))
      c   == SkipSpaces(q, b + n1)
      sep == IF MatchAt(q, c, <<"a", "n", "d">>) THEN 3
             ELSE IF MatchAt(q, c, <<"-">>) THEN 1
             ELSE IF MatchAt(q, c, <<"t", "o">>) THEN 2 ELSE 0
      d   == SkipSpaces(q, c + sep)
      n2  == Min(2, DigitsLen(q, d))
  IN  IF MatchAt(q, i, <<"b", "e", "t", "w", "e", "e", "n">>) /\ b > a /\ n1 >= 1 /\ sep > 0 /\ n2 >= 1
      THEN [ok |-> TRUE, g1 |-> SubSeq(q, b, b + n1 - 1), g2 |-> SubSeq(q, d, d + n2 - 1)]
      ELSE NoMatch

HourRangeMatch(q) == Leftmost(q, LAMBDA i : HourRangeAt(q, i))

\* a numeral of one or two digits followed by \b, after \s*, read from position a
NumeralThenBoundary(q, a) ==
  LET b == SkipSpaces(q, a)
      n == Min(2, DigitsLen(q, b))
  IN  IF n >= 1 /\ WordBoundary(q, b + n)
      THEN [ok |-> TRUE, g1 |-> SubSeq(q, b, b + n - 1), g2 |-> <<>>]
      ELSE NoMatch

\* /\b(?:hour|at)\s*(\d{1,2})\b/ at position i
AtHourAt(q, i) ==
  IF ~WordBoundary(q, i) THEN NoMatch
  ELSE IF MatchAt(q, i, <<"h", "o", "u", "r">>) THEN NumeralThenBoundary(q, i + 4)
  ELSE IF MatchAt(q, i, <<"a", "t">>) THEN NumeralThenBoundary(q, i + 2)
  ELSE NoMatch

AtHourMatch(q) == Leftmost(q, LAMBDA i : AtHourAt(q, i))

\* /\baug(?:ust)?\s*(\d{1,2})\b/ at position i
DayAt(q, i) ==
  IF ~(WordBoundary(q, i) /\ MatchAt(q, i, <<"a", "u", "g">>)) THEN NoMatch
  ELSE IF MatchAt(q, i + 3, <<"u", "s", "t">>) THEN NumeralThenBoundary(q, i + 6)
  ELSE NumeralThenBoundary(q, i + 3)

DayMatch(q) == Leftmost(q, LAMBDA i : DayAt(q, i))

\* /top\s*(\d+)/ or /bottom\s*(\d+)/ at position i
RankCountAt(q, word, i) ==
  LET b == SkipSpaces(q, i + Len(word))
      n == DigitsLen(q, b)
  IN  IF MatchAt(q, i, word) /\ n >= 1
      THEN [ok |-> TRUE, g1 |-> SubSeq(q, b, b + n - 1), g2 |-> <<>>]
      ELSE NoMatch

RankCountMatch(q, word) == Leftmost(q, LAMBDA i : RankCountAt(q, word, i))

\* /top\s*\d+\s*sectors?.*throughput/ (or bottom): is there a match
SectorsMatch(q, word) ==
  \E i \in 1..Len(q) :
    LET b == SkipSpaces(q, i + Len(word))
        n == DigitsLen(q, b)
        c == SkipSpaces(q, b + n)
        e == c + 6
    IN  /\ MatchAt(q, i, word)
        /\ n >= 1
        /\ MatchAt(q, c, <<"s", "e", "c", "t", "o", "r">>)
        /\ \E k \in e..Len(q) :
             /\ MatchAt(q, k, <<"t", "h", "r", "o", "u", "g", "h", "p", "u", "t">>)
             /\ \A j \in e..(k - 1) : q[j] # "\n"

\* /(\d{1,2})\s*th\s*percentile/ at position i
PercentileAt(q, i) ==
  LET n == Min(2, DigitsLen(q, i))
      b == SkipSpaces(q, i + n)
      c == SkipSpaces(q, b + 2)
  IN  IF n >= 1 /\ MatchAt(q, b, <<"t", "h">>) /\ MatchAt(q, c, <<"p", "e", "r", "c", "e", "n", "t", "i", "l", "e">>)
      THEN [ok |-> TRUE, g1 |-> SubSeq(q, i, i + n - 1), g2 |-> <<>>]
      ELSE NoMatch

PercentileMatch(q) == Leftmost(q, LAMBDA i : PercentileAt(q, i))

\* (q.match(re) || [dflt])[1]: the first group, or element 1 of the
\* one-element default array, which is undefined
Group1OrDefault(m) == IF m.ok THEN Str(m.g1) ELSE Undefined

(***************************************************************************)
(* askLocalAI, lines 615-718.  An answer is kept as the handler that       *)
(* produced it and the numbers it prints (before toFixed / toLocaleString):*)
(* kind, n (row count), p, vals, rows.                                     *)
(***************************************************************************)
Answer(kind, n, p, vals, rows) ==
  [kind |-> kind, n |-> n, p |-> p, vals |-> vals, rows |-> rows]

NoMatchingRows == Answer("nomatch", 0, 0, <<>>, <<>>)

Has5GCue(q) == Includes(q, <<" ", "5", "g">>) \/ StartsWith(q, <<"5", "g">>) \/ Includes(q, <<" ", "n", "r">>)
Has4GCue(q) == Includes(q, <<" ", "4", "g">>) \/ StartsWith(q, <<"4", "g">>) \/ Includes(q, <<" ", "l", "t", "e">>)

\* a filter that lets the dropdown win over the cues of the question
TechSubset_selectorFirst(q) ==
  IF selectedTech # "All" THEN filteredData
  ELSE IF Has5GCue(q) THEN SelectSeq(data, LAMBDA r : r.technology = "5G")
  ELSE IF Has4GCue(q) THEN SelectSeq(data, LAMBDA r : r.technology = "4G")
  ELSE data

\* lines 619-622
TechSubset(q) ==
  IF Has5GCue(q) THEN SelectSeq(data, LAMBDA r : r.technology = "5G")
  ELSE IF Has4GCue(q) THEN SelectSeq(data, LAMBDA r : r.technology = "4G")
  ELSE IF selectedTech # "All" THEN filteredData
  ELSE data

\* a filter that applies the single-hour pattern after the range pattern
HourSubset_both(q, subset) ==
  LET hourRange == HourRangeMatch(q)
      atHour    == AtHourMatch(q)
      h1 == clampInt(Str(hourRange.g1), 0, 23)
      h2 == clampInt(Str(hourRange.g2), 0, 23)
      s1 == IF hourRange.ok
            THEN SelectSeq(subset, LAMBDA r : r.hour >= Min(h1, h2) /\ r.hour <= Max(h1, h2))
            ELSE subset
  IN  IF atHour.ok
      THEN SelectSeq(s1, LAMBDA r : r.hour = clampInt(Str(atHour.g1), 0, 23))
      ELSE s1

\* lines 625-637
HourSubset(q, subset) ==
  LET hourRange == HourRangeMatch(q)
      atHour    == AtHourMatch(q)
  IN  IF hourRange.ok
      THEN LET h1 == clampInt(Str(hourRange.g1), 0, 23)
               h2 == clampInt(Str(hourRange.g2), 0, 23)
               lo == IF h1 <= h2 THEN h1 ELSE h2
               hi == IF h1 <= h2 THEN h2 ELSE h1
           IN  SelectSeq(subset, LAMBDA r : r.hour >= lo /\ r.hour <= hi)
      ELSE IF atHour.ok
      THEN LET h == clampInt(Str(atHour.g1), 0, 23)
           IN  SelectSeq(subset, LAMBDA r : r.hour = h)
      ELSE subset

\* lines 640-644
DaySubset(q, subset) ==
  LET dayMatch == DayMatch(q)
  IN  IF dayMatch.ok
      THEN LET d == clampInt(Str(dayMatch.g1), 1, 31)
           IN  SelectSeq(subset, LAMBDA r : r.day = d)
      ELSE subset

\* the subset after the three filters
Subset(q) == DaySubset(q, HourSubset(q, TechSubset(q)))

\* a / b < c / d for positive denominators
FracLess(x, y) == x[1] * y[2] < y[1] * x[2]

\* lines 679-681 and 688-690: the groups with their mean throughput, ranked
RankedSectors(subset, k, descending) ==
  LET byLoc  == groupBy(subset, "location")
      rows   == [i \in 1..Len(byLoc) |->
                   [loc |-> byLoc[i].loc, mbps |-> avg(byLoc[i].rows, "throughput")]]
      sorted == StableSort(rows, LAMBDA a, b :
                  IF descending THEN FracLess(Frac(b.mbps), Frac(a.mbps))
                  ELSE FracLess(Frac(a.mbps), Frac(b.mbps)))
  IN  SubSeq(sorted, 1, Min(k, Len(sorted)))

\* the conditions of lines 657-701, in their order: the first that holds
IntentAfterCount(q) ==
  IF Includes(q, <<"a", "v", "e", "r", "a", "g", "e", " ", "t", "h", "r", "o", "u", "g", "h", "p", "u", "t">>) \/ Includes(q, <<"a", "v", "g", " ", "t", "h", "r", "o", "u", "g", "h", "p", "u", "t">>)
       \/ Includes(q, <<"t", "h", "r", "o", "u", "g", "h", "p", "u", "t", " ", "m", "e", "a", "n">>) THEN "avgThroughput"
  ELSE IF Includes(q, <<"a", "v", "e", "r", "a", "g", "e", " ", "r", "s", "r", "p">>) \/ Includes(q, <<"a", "v", "g", " ", "r", "s", "r", "p">>) THEN "avgRsrp"
  ELSE IF Includes(q, <<"a", "v", "e", "r", "a", "g", "e", " ", "r", "s", "r", "q">>) \/ Includes(q, <<"a", "v", "g", " ", "r", "s", "r", "q">>) THEN "avgRsrq"
  ELSE IF Includes(q, <<"a", "v", "e", "r", "a", "g", "e", " ", "s", "i", "n", "r">>) \/ Includes(q, <<"a", "v", "g", " ", "s", "i", "n", "r">>) THEN "avgSinr"
  ELSE IF Includes(q, <<"c", "l", "a", "s", "s", " ", "1">>) /\ (Includes(q, <<"p", "e", "r", "c", "e", "n", "t">>) \/ Includes(q, <<"c", "o", "v", "e", "r", "a", "g", "e">>)
                                         \/ Includes(q, <<"s", "h", "a", "r", "e">>)) THEN "class1"
  ELSE IF SectorsMatch(q, <<"t", "o", "p">>) THEN "top"
  ELSE IF SectorsMatch(q, <<"b", "o", "t", "t", "o", "m">>) THEN "bottom"
  ELSE IF Includes(q, <<"p", "e", "r", "c", "e", "n", "t", "i", "l", "e">>) /\ Includes(q, <<"t", "h", "r", "o", "u", "g", "h", "p", "u", "t">>) THEN "percentile"
  ELSE IF Includes(q, <<"w", "o", "r", "s", "t", " ", "r", "s", "r", "p">>) \/ Includes(q, <<"l", "o", "w", "e", "s", "t", " ", "r", "s", "r", "p">>) THEN "worst"
  ELSE "summary"

\* a dispatch that tests the count intent before the schema intent
Intent_countFirst(q) ==
  IF Includes(q, <<"c", "o", "u", "n", "t">>) \/ Includes(q, <<"h", "o", "w", " ", "m", "a", "n", "y">>) \/ Includes(q, <<"r", "o", "w", "s">>)
       \/ Includes(q, <<"m", "e", "a", "s", "u", "r", "e", "m", "e", "n", "t", "s">>) THEN "count"
  ELSE IF Includes(q, <<"c", "o", "l", "u", "m", "n", "s">>) \/ Includes(q, <<"s", "c", "h", "e", "m", "a">>) \/ Includes(q, <<"h", "e", "a", "d", "e", "r", "s">>) THEN "columns"
  ELSE IntentAfterCount(q)

\* the conditions of lines 649-701, in their order: the first that holds
Intent(q) ==
  IF Includes(q, <<"c", "o", "l", "u", "m", "n", "s">>) \/ Includes(q, <<"s", "c", "h", "e", "m", "a">>) \/ Includes(q, <<"h", "e", "a", "d", "e", "r", "s">>) THEN "columns"
  ELSE IF Includes(q, <<"c", "o", "u", "n", "t">>) \/ Includes(q, <<"h", "o", "w", " ", "m", "a", "n", "y">>) \/ Includes(q, <<"r", "o", "w", "s">>)
            \/ Includes(q, <<"m", "e", "a", "s", "u", "r", "e", "m", "e", "n", "t", "s">>) THEN "count"
  ELSE IntentAfterCount(q)

\* the return statement of each intent, lines 650-717
Handle(intent, q, subset) ==
  CASE intent = "columns" ->
         Answer("columns", 0, 0, <<>>, DOMAIN data[1])
    [] intent = "count" ->
         Answer("count", Len(subset), 0, <<>>, <<>>)
    [] intent = "avgThroughput" ->
         Answer("avgThroughput", Len(subset), 0, <<avg(subset, "throughput")>>, <<>>)
    [] intent = "avgRsrp" ->
         Answer("avgRsrp", 0, 0, <<avg(subset, "rsrp")>>, <<>>)
    [] intent = "avgRsrq" ->
         Answer("avgRsrq", 0, 0, <<avg(subset, "rsrq")>>, <<>>)
    [] intent = "avgSinr" ->
         Answer("avgSinr", 0, 0, <<avg(subset, "sinr")>>, <<>>)
    [] intent = "class1" ->
         LET c1 == Class1Count(subset)
         IN  Answer("class1", Len(subset), 0, <<Div(c1 * 100, Len(subset)), Num(c1 * Unit)>>, <<>>)
    [] intent = "top" ->
         LET k    == clampInt(Group1OrDefault(RankCountMatch(q, <<"t", "o", "p">>)), 1, 50)
             rows == RankedSectors(subset, k, TRUE)
         IN  Answer("top", Len(rows), 0, <<>>, rows)
    [] intent = "bottom" ->
         LET k    == clampInt(Group1OrDefault(RankCountMatch(q, <<"b", "o", "t", "t", "o", "m">>)), 1, 50)
             rows == RankedSectors(subset, k, FALSE)
         IN  Answer("bottom", Len(rows), 0, <<>>, rows)
    [] intent = "percentile" ->
         LET p == clampInt(Group1OrDefault(PercentileMatch(q)), 1, 99)
         IN  Answer("percentile", 0, p, <<percentile(subset, "throughput", p)>>, <<>>)
    [] intent = "worst" ->
         LET worst == StableSort(subset, LAMBDA a, b : a.rsrp.v < b.rsrp.v)[1]
         IN  Answer("worst", 0, 0, <<worst.rsrp>>,
                    <<[location |-> worst.location, timestamp |-> worst.timestamp]>>)
    [] intent = "summary" ->
         LET c1 == Class1Count(subset)
         IN  Answer("summary", Len(subset), 0,
                    <<avg(subset, "throughput"), avg(subset, "rsrp"), avg(subset, "rsrq"),
                      avg(subset, "sinr"), Div(c1 * 100, Len(subset))>>, <<>>)

\* an askLocalAI without the early return of line 646
askLocalAI_noEmptyCheck(question) ==
  LET q == ToLowerCase(question)
  IN  IF Intent(q) \in {"columns", "count"} /\ data # <<>>
      THEN Handle(Intent(q), q, Subset(q))
      ELSE IF Len(Subset(q)) = 0 THEN NoMatchingRows
      ELSE Handle(Intent(q), q, Subset(q))

askLocalAI(question) ==
  LET q      == ToLowerCase(question)
      subset == Subset(q)
  IN  IF Len(subset) = 0 THEN NoMatchingRows
      ELSE Handle(Intent(q), q, subset)

(***************************************************************************)
(* Files the user can select                                               *)
(***************************************************************************)
\* Scenario A of the specification plus a second row without a time stamp
FileA ==
  [name    |-> "a.csv",
   headers |-> << <<"L", "a", "t">>, <<"L", "o", "n">>, <<"R", "S", "R", "P">>, <<"D", "a", "t", "e">> >>,
   rows    |-> << << Num(-261000), Num(280000), Num(-650000), DateObj(5) >>,
                  << Num(0), Num(281000), Num(-900000), Null >> >>]

\* a header line and no rows
FileEmpty ==
  [name    |-> "empty.csv",
   headers |-> << <<"R", "S", "R", "P">>, <<"T", "e", "c", "h">> >>,
   rows    |-> << >>]

\* header cells padded with blanks
FilePadded ==
  [name    |-> "padded.csv",
   headers |-> << <<" ", "R", "S", "R", "P", " ">>, <<" ", "T", "e", "c", "h">> >>,
   rows    |-> << << Num(-1001000), Str(<<"N", "R">>) >> >>]

CatalogFiles == {FileA, FileEmpty, FilePadded}

(***************************************************************************)
(* Actions                                                                 *)
(***************************************************************************)
\* useEffect(() => {...}, [dataSource]), lines 201-212
DataSourceEffect ==
  /\ effectPending
  /\ effectPending' = FALSE
  /\ IF dataSource = "synthetic"
     THEN \E seed \in Seeds :
            /\ data' = generateDriveTestData(tz, seed)
            /\ error' = "null"
     ELSE UNCHANGED <<data, error>>
  /\ UNCHANGED <<selectedTech, csvFile, isLoading, dataSource, csvHeaders,
                 fieldMapping, parses, tz, nUploads, nApplies, nEdits>>
  /\ UNCHANGED aiVars

\* handleCsvUpload, lines 333-340: a file is chosen and its parse started
handleCsvUpload(file) ==
  /\ ~effectPending
  /\ nUploads < MaxUploads
  /\ csvFile' = file
  /\ isLoading' = TRUE
  /\ parses' = parses (+) SetToBag({[kind |-> "upload", file |-> file, mapping |-> EmptyMapping]})
  /\ nUploads' = nUploads + 1
  /\ UNCHANGED <<data, selectedTech, dataSource, csvHeaders, error, fieldMapping,
                 effectPending, tz, nApplies, nEdits>>
  /\ UNCHANGED aiVars

\* the complete callback of handleCsvUpload, lines 341-418
UploadComplete(p) ==
  /\ ~effectPending
  /\ BagIn(p, parses)
  /\ p.kind = "upload"
  /\ LET results == PapaParse(p.file, TRUE)
         headers == results.fields
     IN  /\ isLoading' = FALSE
         /\ csvHeaders' = headers
         /\ fieldMapping' = AutoMapping(headers)
  /\ parses' = parses (-) SetToBag({p})
  /\ UNCHANGED <<data, selectedTech, csvFile, dataSource, error, effectPending,
                 tz, nUploads, nApplies, nEdits>>
  /\ UNCHANGED aiVars

\* the error callback of handleCsvUpload, lines 426-429
UploadError(p) ==
  /\ ~effectPending
  /\ BagIn(p, parses)
  /\ p.kind = "upload"
  /\ isLoading' = FALSE
  /\ parses' = parses (-) SetToBag({p})
  /\ UNCHANGED <<data, selectedTech, csvFile, dataSource, csvHeaders, error,
                 fieldMapping, effectPending, tz, nUploads, nApplies, nEdits>>
  /\ UNCHANGED aiVars

\* applyCsvData, lines 433-438; the button is disabled while !csvFile || isLoading
applyCsvData ==
  /\ ~effectPending
  /\ nApplies < MaxApplies
  /\ csvFile # NoFile
  /\ ~isLoading
  /\ isLoading' = TRUE
  /\ error' = "null"
  /\ parses' = parses (+) SetToBag({[kind |-> "apply", file |-> csvFile, mapping |-> fieldMapping]})
  /\ nApplies' = nApplies + 1
  /\ UNCHANGED <<data, selectedTech, csvFile, dataSource, csvHeaders, fieldMapping,
                 effectPending, tz, nUploads, nEdits>>
  /\ UNCHANGED aiVars

\* a callback that appends the new records to the current ones
ApplyOutcome_merges(results, mapping, zone, seed) ==
  IF Len(results.data) = 0
  THEN [ok |-> FALSE, data |-> <<>>, error |-> ErrNoData]
  ELSE [ok |-> TRUE,
        data |-> data \o processCsvData(results.data, mapping, zone, seed),
        error |-> "null"]

\* the state written by the complete callback of applyCsvData, lines 439-466
ApplyOutcome(results, mapping, zone, seed) ==
  IF Len(results.data) = 0
  THEN [ok |-> FALSE, data |-> <<>>, error |-> ErrNoData]
  ELSE LET processed == processCsvData(results.data, mapping, zone, seed)
       IN  IF Len(processed) = 0
           THEN [ok |-> FALSE, data |-> <<>>, error |-> ErrNoValid]
           ELSE [ok |-> TRUE, data |-> processed, error |-> "null"]

\* a callback that normalizes with the mapping of the time it runs
ApplyComplete_currentMapping(p) ==
  /\ ~effectPending
  /\ BagIn(p, parses)
  /\ p.kind = "apply"
  /\ \E seed \in Seeds :
       LET out == ApplyOutcome(PapaParse(p.file, FALSE), fieldMapping, tz, seed)
       IN  /\ data' = out.data
           /\ error' = out.error
           /\ dataSource' = IF out.ok THEN "csv" ELSE dataSource
           /\ effectPending' = (out.ok /\ dataSource # "csv")
  /\ isLoading' = FALSE
  /\ parses' = parses (-) SetToBag({p})
  /\ UNCHANGED <<selectedTech, csvFile, csvHeaders, fieldMapping, tz, nUploads, nApplies, nEdits>>
  /\ UNCHANGED aiVars

\* the complete callback of applyCsvData, lines 439-468, with the mapping
\* its closure holds
ApplyComplete(p) ==
  /\ ~effectPending
  /\ BagIn(p, parses)
  /\ p.kind = "apply"
  /\ \E seed \in Seeds :
       LET out == ApplyOutcome(PapaParse(p.file, FALSE), p.mapping, tz, seed)
       IN  /\ data' = out.data
           /\ error' = out.error
           /\ dataSource' = IF out.ok THEN "csv" ELSE dataSource
           /\ effectPending' = (out.ok /\ dataSource # "csv")
  /\ isLoading' = FALSE
  /\ parses' = parses (-) SetToBag({p})
  /\ UNCHANGED <<selectedTech, csvFile, csvHeaders, fieldMapping, tz, nUploads, nApplies, nEdits>>
  /\ UNCHANGED aiVars

\* the error callback of applyCsvData, lines 470-474
ApplyError(p) ==
  /\ ~effectPending
  /\ BagIn(p, parses)
  /\ p.kind = "apply"
  /\ error' = ErrParse
  /\ isLoading' = FALSE
  /\ parses' = parses (-) SetToBag({p})
  /\ UNCHANGED <<data, selectedTech, csvFile, dataSource, csvHeaders, fieldMapping,
                 effectPending, tz, nUploads, nApplies, nEdits>>
  /\ UNCHANGED aiVars

\* "Use Demo Data": setDataSource('synthetic'), lines 833-835
UseDemoData ==
  /\ ~effectPending
  /\ dataSource' = "synthetic"
  /\ effectPending' = (dataSource # "synthetic")
  /\ UNCHANGED <<data, selectedTech, csvFile, isLoading, csvHeaders, error,
                 fieldMapping, parses, tz, nUploads, nApplies, nEdits>>
  /\ UNCHANGED aiVars

\* the select of a mapping row, lines 897-900 (rendered when csvHeaders is not empty)
EditMapping(field, i) ==
  /\ ~effectPending
  /\ nEdits < MaxEdits
  /\ csvHeaders # <<>>
  /\ i \in 0..Len(csvHeaders)
  /\ fieldMapping' = [fieldMapping EXCEPT ![field] = IF i = 0 THEN <<>> ELSE csvHeaders[i]]
  /\ fieldMapping' # fieldMapping
  /\ nEdits' = nEdits + 1
  /\ UNCHANGED <<data, selectedTech, csvFile, isLoading, dataSource, csvHeaders, error,
                 parses, effectPending, tz, nUploads, nApplies>>
  /\ UNCHANGED aiVars

(***************************************************************************)
(* The assistant panel                                                     *)
(***************************************************************************)
Greeting == [role |-> "assistant", text |-> Answer("greeting", 0, 0, <<>>, <<>>)]

\* texts the user types in the behaviours of Spec and of the assistant study, one of them blank
ChatQuestions == { <<"h", "o", "w", " ", "m", "a", "n", "y", " ", "r", "o", "w", "s">>, <<"h", "e", "l", "l", "o">>, <<" ", " ">> }

\* the reply of the remote model when it differs from the local answer
RefinedText == Answer("refined", 0, 0, <<>>, <<>>)

PctlIdle == [arr |-> <<>>, p |-> 0, called |-> FALSE, out |-> Undefined]

\* the technology dropdown, line 800
SelectTech(t) ==
  /\ ~effectPending
  /\ t # selectedTech
  /\ selectedTech' = t
  /\ UNCHANGED <<data, csvFile, isLoading, dataSource, csvHeaders, error, fieldMapping,
                 parses, effectPending, tz, nUploads, nApplies, nEdits>>
  /\ UNCHANGED aiVars

\* the question box, line 1235
TypeQuestion(text) ==
  /\ ~effectPending
  /\ nAsks < MaxAsks
  /\ text # aiInput
  /\ aiInput' = text
  /\ UNCHANGED <<data, selectedTech, csvFile, isLoading, dataSource, csvHeaders, error,
                 fieldMapping, parses, effectPending, tz, nUploads, nApplies, nEdits>>
  /\ UNCHANGED <<aiMessages, useLLM, openaiKey, llmCalls, subsetSeen, pctl, nAsks>>

\* the checkbox, line 869
SetUseLLM(b) ==
  /\ ~effectPending
  /\ b # useLLM
  /\ useLLM' = b
  /\ UNCHANGED <<data, selectedTech, csvFile, isLoading, dataSource, csvHeaders, error,
                 fieldMapping, parses, effectPending, tz, nUploads, nApplies, nEdits>>
  /\ UNCHANGED <<aiMessages, aiInput, openaiKey, llmCalls, subsetSeen, pctl, nAsks>>

\* the key box, line 877
SetOpenaiKey(k) ==
  /\ ~effectPending
  /\ k # openaiKey
  /\ openaiKey' = k
  /\ UNCHANGED <<data, selectedTech, csvFile, isLoading, dataSource, csvHeaders, error,
                 fieldMapping, parses, effectPending, tz, nUploads, nApplies, nEdits>>
  /\ UNCHANGED <<aiMessages, aiInput, useLLM, llmCalls, subsetSeen, pctl, nAsks>>

\* the messages appended by lines 766 and 773
AskMessages(question, localAnswer) ==
  <<[role |-> "user", text |-> question], [role |-> "assistant", text |-> localAnswer]>>

\* an onAskAssistant without the return of line 765
onAskAssistant_noBlankCheck ==
  /\ ~effectPending
  /\ nAsks < MaxAsks
  /\ \E question \in {Trim(aiInput)} :
       /\ \E localAnswer \in {askLocalAI(question)} :
            /\ aiMessages' = aiMessages \o AskMessages(question, localAnswer)
            /\ llmCalls' = IF useLLM /\ openaiKey # ""
                           THEN llmCalls (+) SetToBag({[localAnswer |-> localAnswer]})
                           ELSE llmCalls
       /\ subsetSeen' = Subset(ToLowerCase(question))
       /\ aiInput' = <<>>
  /\ nAsks' = nAsks + 1
  /\ UNCHANGED <<data, selectedTech, csvFile, isLoading, dataSource, csvHeaders, error,
                 fieldMapping, parses, effectPending, tz, nUploads, nApplies, nEdits>>
  /\ UNCHANGED <<useLLM, openaiKey, pctl>>

\* onAskAssistant up to its await, lines 763-776: a blank question returns at
\* line 765; callOpenAI returns null at line 722 without a fetch unless the
\* refiner is enabled and has a key
onAskAssistant ==
  /\ ~effectPending
  /\ nAsks < MaxAsks
  /\ \E question \in {Trim(aiInput)} :
       IF question = <<>>
       THEN UNCHANGED <<aiMessages, aiInput, llmCalls, subsetSeen>>
       ELSE
         /\ \E localAnswer \in {askLocalAI(question)} :
              /\ aiMessages' = aiMessages \o AskMessages(question, localAnswer)
              /\ llmCalls' = IF useLLM /\ openaiKey # ""
                             THEN llmCalls (+) SetToBag({[localAnswer |-> localAnswer]})
                             ELSE llmCalls
         /\ subsetSeen' = Subset(ToLowerCase(question))
         /\ aiInput' = <<>>
  /\ nAsks' = nAsks + 1
  /\ UNCHANGED <<data, selectedTech, csvFile, isLoading, dataSource, csvHeaders, error,
                 fieldMapping, parses, effectPending, tz, nUploads, nApplies, nEdits>>
  /\ UNCHANGED <<useLLM, openaiKey, pctl>>

\* a continuation that puts the reply in the place of the local answer
ReplyMessages_overwrites(c, llm) ==
  IF llm # Null /\ llm # c.localAnswer
  THEN SubSeq(aiMessages, 1, Len(aiMessages) - 1) \o <<[role |-> "assistant", text |-> llm]>>
  ELSE aiMessages

\* lines 777-779: the transcript after callOpenAI resolved to llm
ReplyMessages(c, llm) ==
  IF llm # Null /\ llm # c.localAnswer
  THEN aiMessages \o <<[role |-> "assistant", text |-> llm]>>
  ELSE aiMessages

\* the fetch of c answers with a text (lines 754-756), possibly empty
LlmReply(c, llm) ==
  /\ BagIn(c, llmCalls)
  /\ aiMessages' = ReplyMessages(c, llm)
  /\ llmCalls' = llmCalls (-) SetToBag({c})
  /\ UNCHANGED <<data, selectedTech, csvFile, isLoading, dataSource, csvHeaders, error,
                 fieldMapping, parses, effectPending, tz, nUploads, nApplies, nEdits>>
  /\ UNCHANGED <<aiInput, useLLM, openaiKey, subsetSeen, pctl, nAsks>>

\* the fetch of c rejects or answers with an error status (lines 753, 757-760)
LlmFail(c) ==
  /\ BagIn(c, llmCalls)
  /\ aiMessages' = ReplyMessages(c, Null)
  /\ llmCalls' = llmCalls (-) SetToBag({c})
  /\ UNCHANGED <<data, selectedTech, csvFile, isLoading, dataSource, csvHeaders, error,
                 fieldMapping, parses, effectPending, tz, nUploads, nApplies, nEdits>>
  /\ UNCHANGED <<aiInput, useLLM, openaiKey, subsetSeen, pctl, nAsks>>

\* the texts a fetch can answer with: none (null), its own local answer, another text
LlmTexts(c) == {Null, c.localAnswer, RefinedText}

\* the assistant state of the first render
AiInit ==
  /\ aiMessages = <<Greeting>>
  /\ aiInput = <<>>
  /\ useLLM = FALSE
  /\ openaiKey = ""
  /\ llmCalls = EmptyBag
  /\ subsetSeen = <<>>
  /\ pctl = PctlIdle
  /\ nAsks = 0

(***************************************************************************)
(* The component: Init is the state of the first render, before the mount  *)
(* effect has run.                                                         *)
(***************************************************************************)
Init ==
  /\ data = <<>>
  /\ selectedTech = "All"
  /\ csvFile = NoFile
  /\ isLoading = FALSE
  /\ dataSource = "synthetic"
  /\ csvHeaders = <<>>
  /\ error = "null"
  /\ fieldMapping = EmptyMapping
  /\ parses = EmptyBag
  /\ effectPending = TRUE
  /\ tz = HostZone
  /\ nUploads = 0
  /\ nApplies = 0
  /\ nEdits = 0
  /\ AiInit

Next ==
  \/ DataSourceEffect
  \/ \E file \in CatalogFiles : handleCsvUpload(file)
  \/ \E p \in BagToSet(parses) : UploadComplete(p)
  \/ \E p \in BagToSet(parses) : UploadError(p)
  \/ applyCsvData
  \/ \E p \in BagToSet(parses) : ApplyComplete(p)
  \/ \E p \in BagToSet(parses) : ApplyError(p)
  \/ UseDemoData
  \/ \E field \in EditFields : \E i \in 0..Len(csvHeaders) : EditMapping(field, i)
  \/ \E t \in Techs : SelectTech(t)
  \/ \E text \in ChatQuestions : TypeQuestion(text)
  \/ \E b \in BOOLEAN : SetUseLLM(b)
  \/ \E k \in {"", "sk-key"} : SetOpenaiKey(k)
  \/ onAskAssistant
  \/ \E c \in BagToSet(llmCalls) : \E llm \in LlmTexts(c) : LlmReply(c, llm)
  \/ \E c \in BagToSet(llmCalls) : LlmFail(c)

Spec == Init /\ [][Next]_vars

(***************************************************************************)
(* Re-ingestion study: the behaviours that start with the two-row file     *)
(* ingested (mount, select, Apply, completion) and in which the user keeps *)
(* working with CSV files.                                                 *)
(***************************************************************************)
InitIngest ==
  /\ \E seed \in Seeds :
       data = processCsvData(PapaParse(FileA, FALSE).data,
                             AutoMapping(PapaParse(FileA, TRUE).fields), HostZone, seed)
  /\ selectedTech = "All"
  /\ csvFile = FileA
  /\ isLoading = FALSE
  /\ dataSource = "csv"
  /\ csvHeaders = PapaParse(FileA, TRUE).fields
  /\ error = "null"
  /\ fieldMapping = AutoMapping(PapaParse(FileA, TRUE).fields)
  /\ parses = EmptyBag
  /\ effectPending = FALSE
  /\ tz = HostZone
  /\ nUploads = 1
  /\ nApplies = 0
  /\ nEdits = 0
  /\ AiInit

NextIngest ==
  \/ \E file \in CatalogFiles : handleCsvUpload(file)
  \/ \E p \in BagToSet(parses) : UploadComplete(p)
  \/ \E p \in BagToSet(parses) : UploadError(p)
  \/ applyCsvData
  \/ \E p \in BagToSet(parses) : ApplyComplete(p)
  \/ \E p \in BagToSet(parses) : ApplyError(p)
  \/ \E field \in EditFields : \E i \in 0..Len(csvHeaders) : EditMapping(field, i)

SpecIngest == InitIngest /\ [][NextIngest]_vars

(***************************************************************************)
(* Normalization study: one ingestion pass over a file whose last row is   *)
(* drawn from a bounded set of rows.  The state before the pass is the one *)
(* left by a failed ingestion of an empty file followed by the selection   *)
(* of the study file (data = [], dataSource = 'synthetic').                *)
(***************************************************************************)
StudyHeaders ==
  << <<"D", "a", "t", "e">>, <<"R", "S", "R", "P">>, <<"R", "S", "R", "Q">>, <<"S", "I", "N", "R">>, <<"T", "e", "c", "h">>, <<"S", "i", "t", "e">>, <<"M", "b", "p", "s">>, <<"L", "a", "t">>, <<"L", "o", "n">> >>

\* cells of the columns, in header order
BaseCells ==
  << DateObj(5), Num(-650000), Num(-95000), Num(123000), Str(<<"5", "G">>), Str(<<"A">>),
     Num(800000), Num(-261000), Num(280000) >>

TimestampCells ==
  { Null, Num(0), Num(5 * Unit), Str(<<"a", "b", "c">>), DateObj(5), DateObj(23), DateObj(-1),
    DateObj(30 * 24 + 22) }

RsrpCells ==
  { Num(-700000), Num(-700400), Num(-701000), Num(-850000), Num(-850400),
    Num(-851000), Num(-1000000), Num(-1000400), Num(-1001000), Num(-500000),
    Num(0), Null, Str(<<"a", "b", "c">>), Str(<<"-", "6", "5", ".", "5", "d", "B", "m">>) }

QualityCells == { Num(0), Num(-123400), Num(57600), Null, Str(<<"a", "b", "c">>) }

TechnologyCells == { Str(<<"5", "G">>), Str(<<"L", "T", "E">>), Str(<<"N", "R">>), Str(<<"4", "g">>), Null, Num(5 * Unit) }

LocationCells == { Str(<<"A">>), Str(<<"B">>), Null, Num(7 * Unit) }

LatCells == { Num(0), Num(-261000), Num(900000), Num(900001), Num(-900000), Null, Str(<<"a", "b", "c">>) }
LonCells == { Num(0), Num(280000), Num(1800000), Num(1800001), Num(-1800000), Null }

\* the rows under study: the base row with one column, or the coordinate pair, replaced
StudyRows ==
       { [BaseCells EXCEPT ![1] = c] : c \in TimestampCells }
  \cup { [BaseCells EXCEPT ![2] = c] : c \in RsrpCells }
  \cup { [BaseCells EXCEPT ![3] = c] : c \in QualityCells }
  \cup { [BaseCells EXCEPT ![4] = c] : c \in QualityCells }
  \cup { [BaseCells EXCEPT ![5] = c] : c \in TechnologyCells }
  \cup { [BaseCells EXCEPT ![6] = c] : c \in LocationCells }
  \cup { [BaseCells EXCEPT ![7] = c] : c \in QualityCells }
  \cup { [BaseCells EXCEPT ![8] = la, ![9] = lo] : la \in LatCells, lo \in LonCells }

\* the rsrp of the padding rows walks through the class boundaries
PadRsrp ==
  << Num(-700000), Num(-701000), Num(-850000), Num(-851000), Num(-1000000),
     Num(-1001000), Num(-650000) >>

PadRow(i) == [BaseCells EXCEPT ![2] = PadRsrp[(i % Len(PadRsrp)) + 1]]

StudyFile(pad, row) ==
  [name    |-> "study.csv",
   headers |-> StudyHeaders,
   rows    |-> [i \in 1..(pad + 1) |-> IF i <= pad THEN PadRow(i - 1) ELSE row]]

\* mappings the select boxes can hold when the pass starts: the proposal, all
\* cleared, only the longitude cleared, and one left behind by another file
StaleMapping == [f \in Fields |-> <<"O", "t", "h", "e", "r">>]

StudyMappings ==
  { AutoMapping(StudyHeaders),
    EmptyMapping,
    [AutoMapping(StudyHeaders) EXCEPT !.longitude = <<>>],
    StaleMapping }

InitNormalize ==
  /\ data = <<>>
  /\ selectedTech = "All"
  /\ \E pad \in {0, PadRows} : \E row \in StudyRows : csvFile = StudyFile(pad, row)
  /\ isLoading = FALSE
  /\ dataSource = "synthetic"
  /\ csvHeaders = StudyHeaders
  /\ error = ErrNoData
  /\ fieldMapping \in StudyMappings
  /\ parses = EmptyBag
  /\ effectPending = FALSE
  /\ tz \in TimeZones
  /\ nUploads = MaxUploads
  /\ nApplies = MaxApplies - 1
  /\ nEdits = MaxEdits
  /\ AiInit

NextNormalize ==
  \/ applyCsvData
  \/ \E p \in BagToSet(parses) : ApplyComplete(p)
  \/ \E p \in BagToSet(parses) : ApplyError(p)
  \/ DataSourceEffect

SpecNormalize == InitNormalize /\ [][NextNormalize]_vars

(***************************************************************************)
(* Properties of the normalization pass (checked under SpecNormalize,      *)
(* where the file and the mapping of the pass are csvFile and fieldMapping)*)
(***************************************************************************)
PassRows == PapaParse(csvFile, FALSE).data
Ingested == dataSource = "csv"

\* the column of a field is mapped and the row has a cell for it
Present(row, col) == col # <<>> /\ Cell(row, col) # Undefined

Populated(r) ==
  /\ IsNum(r.rsrp) /\ IsNum(r.rsrq) /\ IsNum(r.sinr) /\ IsNum(r.throughput)
  /\ IsNum(r.lat) /\ IsNum(r.lon)
  /\ r.hour \in 0..23
  /\ r.day \in 1..31
  /\ r.signalClass \in 1..4
  /\ r.technology \in {"4G", "5G"}
  /\ r.location.t \in {"string", "number"} /\ Truthy(r.location)

\* C3: processCsvData returns one record per raw row, in row order
\* (originalRow = position, and the record carries the location and the rsrp
\* of its own row), with every field populated, whatever the cells of the
\* rows are.
C3_OneRecordPerRow ==
  Ingested =>
    LET rows == PassRows
    IN  /\ Len(data) = Len(rows)
        /\ \A i \in 1..Len(data) :
             /\ data[i].originalRow = i - 1
             /\ Populated(data[i])
             /\ LET c == Cell(rows[i], fieldMapping.location)
                IN  (fieldMapping.location # <<>> /\ Truthy(c)) => data[i].location = c
             /\ LET c == Cell(rows[i], fieldMapping.rsrp)
                IN  (fieldMapping.rsrp # <<>> /\ IsNum(c) /\ c.v # 0) => data[i].rsrp = ToFixed1(c)

\* a padded file whose last row has an unusable rsrp cell has been ingested
C3_Witness ==
  /\ Ingested
  /\ Len(data) = PadRows + 1
  /\ fieldMapping.rsrp # <<>>
  /\ ~IsNum(ParseFloat(Cell(PassRows[PadRows + 1], fieldMapping.rsrp)))

\* C4: the signalClass of every record is the classification of the rsrp
\* stored in the same record (the value rounded to one decimal place).
C4_ClassMatchesStoredRsrp ==
  Ingested => \A i \in 1..Len(data) : data[i].signalClass = SignalClass(data[i].rsrp)

\* the rsrp values that processCsvData resolved for the rows, in units of 1/Unit
ResolvedRsrp ==
  LET rows == PassRows
  IN  [i \in 1..Len(rows) |-> Measurement(rows[i], fieldMapping.rsrp, Num(-80 * Unit)).v]

RuleClass(x) ==
  IF x >= -700000 THEN 1 ELSE IF x >= -850000 THEN 2 ELSE IF x >= -1000000 THEN 3 ELSE 4

\* C5: the class computed for an rsrp is 1 from -70 up, 2 from -85 up, 3
\* from -100 up and 4 below; it is defined for every rsrp, never larger for
\* a higher rsrp, and the five boundary values get classes 1, 2, 2, 3, 4.
C5_ClassificationRule ==
  Ingested =>
    LET x == ResolvedRsrp
        c == [i \in 1..Len(data) |-> data[i].signalClass]
    IN  /\ \A i \in 1..Len(data) :
             /\ c[i] \in 1..4
             /\ c[i] = RuleClass(x[i])
             /\ (x[i] = -700000 => c[i] = 1)
             /\ (x[i] = -701000 => c[i] = 2)
             /\ (x[i] = -850000 => c[i] = 2)
             /\ (x[i] = -1000000 => c[i] = 3)
             /\ (x[i] = -1001000 => c[i] = 4)
        /\ \A i, j \in 1..Len(data) : x[i] >= x[j] => c[i] <= c[j]

\* one dataset holds a record at each of the five boundary values
C5_Witness ==
  /\ Ingested
  /\ LET x == ResolvedRsrp
     IN  \A b \in {-700000, -701000, -850000, -1000000, -1001000} :
           \E i \in 1..Len(data) : x[i] = b /\ data[i].signalClass = RuleClass(b)

\* validity of a pair as the specification defines it
SpecValid(lat, lon) ==
  LET la == ParseFloat(lat)
      lo == ParseFloat(lon)
  IN  /\ IsNum(la) /\ IsNum(lo)
      /\ la.v >= -90 * Unit /\ la.v <= 90 * Unit
      /\ lo.v >= -180 * Unit /\ lo.v <= 180 * Unit
      /\ ~(la.v = 0 /\ lo.v = 0)

\* C6: isValidCoordinate(lat, lon) is true exactly when both values parse,
\* both are in range and the pair is not (0, 0); checked on every pair the
\* ingestion pass handed to isValidCoordinate.
C6_ValidIffInRangeAndNotOrigin ==
  Ingested =>
    LET rows == PassRows
    IN  \A i \in 1..Len(rows) :
          (Present(rows[i], fieldMapping.latitude) /\ Present(rows[i], fieldMapping.longitude))
            => LET la == Cell(rows[i], fieldMapping.latitude)
                   lo == Cell(rows[i], fieldMapping.longitude)
               IN  isValidCoordinate(ParseFloat(la), ParseFloat(lo)) <=> SpecValid(la, lo)

\* C7: every record has valid coordinates, and they are the source pair
\* exactly when both columns are mapped, present and valid.
C7_CoordinatesValidAndFromSource ==
  Ingested =>
    LET rows == PassRows
    IN  \A i \in 1..Len(data) :
          LET r   == data[i]
              row == rows[r.originalRow + 1]
              la  == Cell(row, fieldMapping.latitude)
              lo  == Cell(row, fieldMapping.longitude)
              fromSource == r.lat = ParseFloat(la) /\ r.lon = ParseFloat(lo)
          IN  /\ SpecValid(r.lat, r.lon)
              /\ fromSource <=> ( /\ Present(row, fieldMapping.latitude)
                                  /\ Present(row, fieldMapping.longitude)
                                  /\ SpecValid(la, lo) )

\* the value the claim C8 expects for a measurement field
ExpectedMeasurement(row, col, dflt) ==
  IF Present(row, col) /\ IsNum(ParseFloat(Cell(row, col)))
  THEN ToFixed1(ParseFloat(Cell(row, col)))
  ELSE dflt

\* C8: rsrp, rsrq and sinr hold the parsed value of the mapped column
\* (rounded to one decimal) whenever it is mapped, present and parses, zero
\* included, and the default -80, -10, 15 otherwise.
C8_ParsedValueStored ==
  Ingested =>
    LET rows == PassRows
    IN  \A i \in 1..Len(data) :
          LET r   == data[i]
              row == rows[r.originalRow + 1]
          IN  /\ r.rsrp = ExpectedMeasurement(row, fieldMapping.rsrp, Num(-80 * Unit))
              /\ r.rsrq = ExpectedMeasurement(row, fieldMapping.rsrq, Num(-10 * Unit))
              /\ r.sinr = ExpectedMeasurement(row, fieldMapping.sinr, Num(15 * Unit))

\* the row has no usable time stamp
NoUsableTimestamp(row) ==
  \/ fieldMapping.timestamp = <<>>
  \/ ~Truthy(Cell(row, fieldMapping.timestamp))
  \/ ~NewDate(Cell(row, fieldMapping.timestamp)).valid

\* C9: a row at index i without a usable time stamp gets hour i mod 24 and
\* the date 2025-08-01 plus floor(i/24) days, in every time zone.
C9_FallbackTimestamp ==
  Ingested =>
    LET rows == PassRows
    IN  \A i \in 1..Len(data) :
          LET r == data[i]
              n == r.originalRow
          IN  NoUsableTimestamp(rows[n + 1]) =>
                /\ r.hour = n % 24
                /\ r.date = n \div 24
                /\ r.day = DayOfMonth(BaseDay1970 + n \div 24)

\* C10: hour and day of every record are the UTC hour of day and day of
\* month of the instant in its timestamp field.
C10_HourAndDayAreUtc ==
  Ingested =>
    \A i \in 1..Len(data) :
      LET r == data[i]
      IN  /\ r.hour = r.timestamp % 24
          /\ r.day = DayOfMonth(BaseDay1970 + r.timestamp \div 24)

(***************************************************************************)
(* Session study: the component from its first render, with the files the  *)
(* user selects and applies and the demo button; no manual mapping edits.  *)
(***************************************************************************)
NextSession ==
  \/ DataSourceEffect
  \/ \E file \in CatalogFiles : handleCsvUpload(file)
  \/ \E p \in BagToSet(parses) : UploadComplete(p)
  \/ \E p \in BagToSet(parses) : UploadError(p)
  \/ applyCsvData
  \/ \E p \in BagToSet(parses) : ApplyComplete(p)
  \/ \E p \in BagToSet(parses) : ApplyError(p)
  \/ UseDemoData

SpecSession == Init /\ [][NextSession]_vars

(***************************************************************************)
(* Selection study: the component from its first render, with files        *)
(* selected one after the other and applied, every parse succeeding.       *)
(***************************************************************************)
NextSelect ==
  \/ DataSourceEffect
  \/ \E file \in CatalogFiles : handleCsvUpload(file)
  \/ \E p \in BagToSet(parses) : UploadComplete(p)
  \/ applyCsvData
  \/ \E p \in BagToSet(parses) : ApplyComplete(p)

SpecSelect == Init /\ [][NextSelect]_vars

(***************************************************************************)
(* Query study: one question asked over an ingested dataset.  The dataset, *)
(* the technology dropdown and the typed question are drawn at the start;  *)
(* the step is onAskAssistant.                                             *)
(***************************************************************************)
\* cells in the order of StudyHeaders: Date, RSRP, RSRQ, SINR, Tech, Site, Mbps, Lat, Lon
QueryRow(h, rsrp, tech, site, mbps) ==
  << DateObj(h), Num(rsrp * Unit), Num(-95000), Num(123000), Str(tech), site,
     Num(mbps * Unit), Num(-261000), Num(280000) >>

\* Scenario C of the specification: sectors A (mean 90 Mbps), B (60), C (30), D (10),
\* measured at local hours 8, 9, 10, 12, 15, 23 and 0 of 1 and 2 August
FileSectors ==
  [name    |-> "sectors.csv",
   headers |-> StudyHeaders,
   rows    |-> << QueryRow(6, -65, <<"5", "G">>, Str(<<"A">>), 100),
                  QueryRow(7, -68, <<"5", "G">>, Str(<<"A">>), 80),
                  QueryRow(8, -80, <<"L", "T", "E">>, Str(<<"B">>), 60),
                  QueryRow(10, -90, <<"L", "T", "E">>, Str(<<"C">>), 20),
                  QueryRow(37, -95, <<"N", "R">>, Str(<<"C">>), 40),
                  QueryRow(45, -105, <<"4", "G">>, Str(<<"D">>), 10),
                  QueryRow(22, -70, <<"4", "G">>, Str(<<"B">>), 60) >>]

\* a 4G-only file with numeric site names and equal means, measured on 31 July
\* (local hour 23), 1 August and 1 September (local hour 0)
FileTies ==
  [name    |-> "ties.csv",
   headers |-> StudyHeaders,
   rows    |-> << QueryRow(-3, -60, <<"4", "G">>, Str(<<"B">>), 50),
                  QueryRow(7, -75, <<"4", "G">>, Num(10 * Unit), 50),
                  QueryRow(30 * 24 + 22, -75, <<"4", "G">>, Num(7 * Unit), 50) >>]

QueryFiles == {FileSectors, FileTies, FileEmpty}

Questions ==
  { <<"h", "o", "w", " ", "m", "a", "n", "y", " ", "r", "o", "w", "s", " ", "o", "n", " ", "5", "G">>, <<"h", "o", "w", " ", "m", "a", "n", "y", " ", "r", "o", "w", "s", " ", "o", "n", " ", "4", "G", " ", "a", "n", "d", " ", "5", "G">>, <<"c", "o", "u", "n", "t", " ", "L", "T", "E", " ", "r", "o", "w", "s">>,
    <<"h", "o", "w", " ", "m", "a", "n", "y", " ", "r", "o", "w", "s">>, <<"5", "g", " ", "c", "o", "u", "n", "t">>, <<"c", "o", "u", "n", "t", " ", "n", "r">>,
    <<"h", "o", "w", " ", "m", "a", "n", "y", " ", "r", "o", "w", "s", " ", "b", "e", "t", "w", "e", "e", "n", " ", "8", " ", "a", "n", "d", " ", "1", "2">>, <<"h", "o", "w", " ", "m", "a", "n", "y", " ", "r", "o", "w", "s", " ", "b", "e", "t", "w", "e", "e", "n", " ", "1", "5", " ", "a", "n", "d", " ", "9">>,
    <<"c", "o", "u", "n", "t", " ", "b", "e", "t", "w", "e", "e", "n", " ", "1", "0", " ", "-", " ", "4", "0">>, <<"h", "o", "w", " ", "m", "a", "n", "y", " ", "r", "o", "w", "s", " ", "a", "t", " ", "9", " ", "b", "e", "t", "w", "e", "e", "n", " ", "8", " ", "t", "o", " ", "1", "2">>,
    <<"h", "o", "w", " ", "m", "a", "n", "y", " ", "r", "o", "w", "s", " ", "a", "t", " ", "1", "5", ":", "0", "0">>, <<"c", "o", "u", "n", "t", " ", "h", "o", "u", "r", " ", "9">>, <<"c", "o", "u", "n", "t", " ", "a", "t", " ", "9", "9">>,
    <<"c", "o", "l", "u", "m", "n", "s", " ", "a", "t", " ", "3">>, <<"h", "o", "w", " ", "m", "a", "n", "y", " ", "r", "o", "w", "s", " ", "o", "n", " ", "a", "u", "g", " ", "9">>, <<"a", "v", "e", "r", "a", "g", "e", " ", "r", "s", "r", "p", " ", "o", "n", " ", "a", "u", "g", "u", "s", "t", " ", "2">>,
    <<"c", "o", "l", "u", "m", "n", "s">>, <<"s", "c", "h", "e", "m", "a", " ", "a", "n", "d", " ", "c", "o", "u", "n", "t", " ", "o", "f", " ", "r", "o", "w", "s">>, <<"h", "o", "w", " ", "m", "a", "n", "y", " ", "m", "e", "a", "s", "u", "r", "e", "m", "e", "n", "t", "s">>,
    <<"a", "v", "e", "r", "a", "g", "e", " ", "t", "h", "r", "o", "u", "g", "h", "p", "u", "t">>, <<"a", "v", "g", " ", "r", "s", "r", "p">>, <<"a", "v", "e", "r", "a", "g", "e", " ", "r", "s", "r", "q">>, <<"a", "v", "g", " ", "s", "i", "n", "r">>,
    <<"c", "l", "a", "s", "s", " ", "1", " ", "c", "o", "v", "e", "r", "a", "g", "e">>, <<"t", "o", "p", " ", "3", " ", "s", "e", "c", "t", "o", "r", "s", " ", "b", "y", " ", "t", "h", "r", "o", "u", "g", "h", "p", "u", "t">>,
    <<"b", "o", "t", "t", "o", "m", " ", "2", " ", "s", "e", "c", "t", "o", "r", "s", " ", "b", "y", " ", "t", "h", "r", "o", "u", "g", "h", "p", "u", "t">>, <<"9", "5", "t", "h", " ", "p", "e", "r", "c", "e", "n", "t", "i", "l", "e", " ", "t", "h", "r", "o", "u", "g", "h", "p", "u", "t">>,
    <<"w", "o", "r", "s", "t", " ", "r", "s", "r", "p">>, <<"h", "e", "l", "l", "o">>,
    <<"a", "v", "e", "r", "a", "g", "e", " ", "t", "h", "r", "o", "u", "g", "h", "p", "u", "t", " ", "a", "n", "d", " ", "a", "v", "e", "r", "a", "g", "e", " ", "r", "s", "r", "p">>,
    <<"c", "l", "a", "s", "s", " ", "1", " ", "s", "h", "a", "r", "e", " ", "o", "f", " ", "t", "o", "p", " ", "2", " ", "s", "e", "c", "t", "o", "r", "s", " ", "b", "y", " ", "t", "h", "r", "o", "u", "g", "h", "p", "u", "t">>,
    <<"t", "o", "p", " ", "2", " ", "s", "e", "c", "t", "o", "r", "s", " ", "b", "y", " ", "t", "h", "r", "o", "u", "g", "h", "p", "u", "t", " ", "p", "e", "r", "c", "e", "n", "t", "i", "l", "e">>,
    <<"w", "o", "r", "s", "t", " ", "r", "s", "r", "p", " ", "p", "e", "r", "c", "e", "n", "t", "i", "l", "e", " ", "t", "h", "r", "o", "u", "g", "h", "p", "u", "t">>,
    <<"c", "o", "u", "n", "t", " ", "t", "h", "e", " ", "t", "o", "p", " ", "3", " ", "s", "e", "c", "t", "o", "r", "s", " ", "b", "y", " ", "t", "h", "r", "o", "u", "g", "h", "p", "u", "t">>,
    <<"t", "o", "p", " ", "0", " ", "s", "e", "c", "t", "o", "r", "s", " ", "b", "y", " ", "t", "h", "r", "o", "u", "g", "h", "p", "u", "t">>, <<"t", "o", "p", " ", "9", "9", " ", "s", "e", "c", "t", "o", "r", "s", " ", "b", "y", " ", "t", "h", "r", "o", "u", "g", "h", "p", "u", "t">>,
    <<"t", "o", "p", " ", "4", "2", "9", "4", "9", "6", "7", "2", "9", "7", " ", "s", "e", "c", "t", "o", "r", "s", " ", "b", "y", " ", "t", "h", "r", "o", "u", "g", "h", "p", "u", "t">>,
    <<"t", "o", "p", " ", "s", "e", "c", "t", "o", "r", "s", " ", "b", "y", " ", "t", "h", "r", "o", "u", "g", "h", "p", "u", "t">>, <<"b", "o", "t", "t", "o", "m", " ", "s", "e", "c", "t", "o", "r", "s", " ", "b", "y", " ", "t", "h", "r", "o", "u", "g", "h", "p", "u", "t">>,
    <<"5", "0", "t", "h", " ", "p", "e", "r", "c", "e", "n", "t", "i", "l", "e", " ", "o", "f", " ", "t", "h", "r", "o", "u", "g", "h", "p", "u", "t">>, <<"p", "e", "r", "c", "e", "n", "t", "i", "l", "e", " ", "t", "h", "r", "o", "u", "g", "h", "p", "u", "t">>,
    <<"0", "t", "h", " ", "p", "e", "r", "c", "e", "n", "t", "i", "l", "e", " ", "t", "h", "r", "o", "u", "g", "h", "p", "u", "t">>,
    <<"a", "v", "g", " ", "r", "s", "r", "q", " ", "a", "n", "d", " ", "a", "v", "g", " ", "r", "s", "r", "p">>,
    <<"a", "v", "g", " ", "s", "i", "n", "r", " ", "a", "n", "d", " ", "a", "v", "g", " ", "r", "s", "r", "q">>,
    <<"c", "l", "a", "s", "s", " ", "1", " ", "s", "h", "a", "r", "e", " ", "a", "n", "d", " ", "a", "v", "g", " ", "s", "i", "n", "r">>,
    <<"b", "o", "t", "t", "o", "m", " ", "2", " ", "s", "e", "c", "t", "o", "r", "s", " ", "t", "o", "p", " ", "1", " ", "s", "e", "c", "t", "o", "r", "s", " ", "t", "h", "r", "o", "u", "g", "h", "p", "u", "t">>,
    <<"9", "5", "t", "h", " ", "p", "e", "r", "c", "e", "n", "t", "i", "l", "e", " ", "t", "h", "r", "o", "u", "g", "h", "p", "u", "t", " ", "o", "f", " ", "b", "o", "t", "t", "o", "m", " ", "2", " ", "s", "e", "c", "t", "o", "r", "s", " ", "b", "y", " ", "t", "h", "r", "o", "u", "g", "h", "p", "u", "t">> }

\* the state after the file has been selected and applied; the empty file
\* leaves the state of its failed pass
LoadedIn(file, zone) ==
  LET rows    == PapaParse(file, FALSE).data
      mapping == AutoMapping(PapaParse(file, TRUE).fields)
  IN  /\ data = IF Len(rows) = 0 THEN <<>> ELSE processCsvData(rows, mapping, zone, 0)
      /\ csvFile = file
      /\ isLoading = FALSE
      /\ dataSource = IF Len(rows) = 0 THEN "synthetic" ELSE "csv"
      /\ csvHeaders = PapaParse(file, TRUE).fields
      /\ error = IF Len(rows) = 0 THEN ErrNoData ELSE "null"
      /\ fieldMapping = mapping
      /\ parses = EmptyBag
      /\ effectPending = FALSE
      /\ tz = zone
      /\ nUploads = MaxUploads
      /\ nApplies = MaxApplies
      /\ nEdits = MaxEdits

Loaded(file) == LoadedIn(file, HostZone)

InitQuery ==
  /\ \E file \in QueryFiles : Loaded(file)
  /\ selectedTech \in Techs
  /\ aiMessages = <<Greeting>>
  /\ aiInput \in Questions
  /\ useLLM = FALSE
  /\ openaiKey = ""
  /\ llmCalls = EmptyBag
  /\ subsetSeen = <<>>
  /\ pctl = PctlIdle
  /\ nAsks = 0

NextQuery == onAskAssistant

SpecQuery == InitQuery /\ [][NextQuery]_vars

(***************************************************************************)
(* Aggregation study: the technology dropdown over an ingested dataset,    *)
(* which is one of the query files or a one-row study file, in any zone.   *)
(***************************************************************************)
InitAggregate ==
  /\ \E file \in QueryFiles \cup {StudyFile(0, row) : row \in StudyRows} :
       \E zone \in TimeZones : LoadedIn(file, zone)
  /\ selectedTech = "All"
  /\ AiInit

NextAggregate == \E t \in Techs : SelectTech(t)

SpecAggregate == InitAggregate /\ [][NextAggregate]_vars

(***************************************************************************)
(* Assistant study: questions, the refiner switches and the remote calls   *)
(* over the sectors dataset.                                               *)
(***************************************************************************)
InitAssistant ==
  /\ Loaded(FileSectors)
  /\ selectedTech = "All"
  /\ AiInit

NextAssistant ==
  \/ \E text \in ChatQuestions : TypeQuestion(text)
  \/ \E b \in BOOLEAN : SetUseLLM(b)
  \/ \E k \in {"", "sk-key"} : SetOpenaiKey(k)
  \/ onAskAssistant
  \/ \E c \in BagToSet(llmCalls) : \E llm \in LlmTexts(c) : LlmReply(c, llm)
  \/ \E c \in BagToSet(llmCalls) : LlmFail(c)

SpecAssistant == InitAssistant /\ [][NextAssistant]_vars

(***************************************************************************)
(* Percentile study: percentile applied to arrays of at most MaxVals       *)
(* objects whose throughput is a number, NaN or missing.                   *)
(***************************************************************************)
PctlValues == {Num(10 * Unit), Num(20 * Unit), Num(-5 * Unit), NaN, Undefined}

PctlRanks == {-50, 0, 25, 50, 75, 100, 150}

RECURSIVE SeqsUpTo(_, _)
SeqsUpTo(S, n) ==
  IF n = 0 THEN {<<>>}
  ELSE LET shorter == SeqsUpTo(S, n - 1)
       IN  shorter \cup {Append(sq, x) : sq \in shorter, x \in S}

InitPercentile ==
  /\ Loaded(FileEmpty)
  /\ selectedTech = "All"
  /\ aiMessages = <<Greeting>>
  /\ aiInput = <<>>
  /\ useLLM = FALSE
  /\ openaiKey = ""
  /\ llmCalls = EmptyBag
  /\ subsetSeen = <<>>
  /\ \E vals \in SeqsUpTo(PctlValues, MaxVals) : \E p \in PctlRanks :
       pctl = [arr    |-> [i \in 1..Len(vals) |-> [throughput |-> vals[i]]],
               p      |-> p,
               called |-> FALSE,
               out    |-> Undefined]
  /\ nAsks = 0

\* percentile(arr, 'throughput', p) is called and returns
CallPercentile ==
  /\ ~pctl.called
  /\ pctl' = [pctl EXCEPT !.called = TRUE,
                          !.out = percentile(pctl.arr, "throughput", pctl.p)]
  /\ UNCHANGED <<data, selectedTech, csvFile, isLoading, dataSource, csvHeaders, error,
                 fieldMapping, parses, effectPending, tz, nUploads, nApplies, nEdits>>
  /\ UNCHANGED <<aiMessages, aiInput, useLLM, openaiKey, llmCalls, subsetSeen, nAsks>>

NextPercentile == CallPercentile

SpecPercentile == InitPercentile /\ [][NextPercentile]_vars

(***************************************************************************)
(* Properties of the ingestion pass as a whole (checked under Spec)        *)
(***************************************************************************)
\* C1: a pass that fails because the parsed row sequence is empty sets the
\* error and leaves the Dataset as it was.
C1_FailedPassKeepsDataset ==
  [][ \A p \in BagToSet(parses) :
        (ApplyComplete(p) /\ Len(PapaParse(p.file, FALSE).data) = 0)
          => (error' # "null" /\ data' = data) ]_vars

\* C2: the Dataset is replaced only as a whole.  Every step leaves the
\* records read by filteredData as they were, or puts in their place the
\* complete output of the one pass that completes in that step (all rows of
\* its file, normalized with the mapping the pass captured), or the complete
\* generated dataset; no step leaves part of an output or records of two
\* passes in the Dataset.
C2_DatasetReplacedAsAWhole ==
  [][ \/ data' = data
      \/ \E p \in BagToSet(parses) : \E seed \in Seeds :
           /\ p.kind = "apply"
           /\ parses' = parses (-) SetToBag({p})
           /\ data' = processCsvData(PapaParse(p.file, FALSE).data, p.mapping, tz, seed)
      \/ \E seed \in Seeds :
           /\ dataSource = "synthetic"
           /\ data' = generateDriveTestData(tz, seed) ]_vars

\* a pass over the two-row file has completed and replaced the generated dataset
C2_Witness ==
  /\ dataSource = "csv"
  /\ parses = EmptyBag
  /\ nApplies >= 1
  /\ Len(data) = 2
  /\ Len(filteredData) = 2
  /\ \A i \in 1..2 : data[i].originalRow = i - 1

(***************************************************************************)
(* Properties of the aggregations                                          *)
(***************************************************************************)
RECURSIVE SumCounts(_)
SumCounts(buckets) ==
  IF buckets = <<>> THEN 0 ELSE Head(buckets).count + SumCounts(Tail(buckets))

FilteredCount ==
  Cardinality({i \in 1..Len(data) : selectedTech = "All" \/ data[i].technology = selectedTech})

ZeroWhenEmpty(b) ==
  b.count = 0 => /\ b.class1Percentage = Num(0)
                 /\ b.avgRSRP = Num(0)
                 /\ b.avgThroughputMbps = Num(0)

\* C11: the counts of the 24 hourly buckets and of the 31 daily buckets each
\* sum to the number of filtered records, and a bucket without records
\* reports 0 for its class-1 share, mean RSRP and mean throughput.
C11_BucketTotals ==
  /\ Len(hourlyData) = 24
  /\ Len(dailyData) = 31
  /\ SumCounts(hourlyData) = FilteredCount
  /\ SumCounts(dailyData) = FilteredCount
  /\ \A i \in 1..24 : ZeroWhenEmpty(hourlyData[i])
  /\ \A i \in 1..31 : ZeroWhenEmpty(dailyData[i])

\* the sectors file filtered to 5G: hour 8 and day 2 hold a record, hour 0 and day 3 none
C11_Witness ==
  /\ csvFile = FileSectors
  /\ tz = HostZone
  /\ selectedTech = "5G"
  /\ FilteredCount = 3
  /\ hourlyData[9].count = 1
  /\ hourlyData[1].count = 0
  /\ dailyData[2].count = 1
  /\ dailyData[3].count = 0

(***************************************************************************)
(* Properties of percentile                                                *)
(***************************************************************************)
\* the finite values of the field, as the set of positions holding them
FinitePositions == {i \in 1..Len(pctl.arr) : pctl.arr[i].throughput.t = "number"}

\* round(p / 100 * m), halves up
NearestRank(p, m) ==
  CHOOSE r \in -(2 * m + 2)..(2 * m + 2) : 100 * r - 50 <= p * m /\ p * m < 100 * r + 50

\* v is at index idx of the ascending sort of the finite values
AtSortedIndex(v, idx) ==
  /\ \E i \in FinitePositions : pctl.arr[i].throughput = v
  /\ Cardinality({i \in FinitePositions : pctl.arr[i].throughput.v < v.v}) <= idx
  /\ idx < Cardinality({i \in FinitePositions : pctl.arr[i].throughput.v <= v.v})

\* C12: percentile returns the element at index round(p/100 * (n-1)), clamped
\* to [0, n-1], of the ascending sort of the n finite values; 0 when there is
\* none; the minimum for p = 0.
C12_PercentileNearestRank ==
  pctl.called =>
    LET n   == Cardinality(FinitePositions)
        r   == NearestRank(pctl.p, n - 1)
        idx == IF r < 0 THEN 0 ELSE IF r > n - 1 THEN n - 1 ELSE r
    IN  IF n = 0 THEN pctl.out = Num(0)
        ELSE /\ AtSortedIndex(pctl.out, idx)
             /\ pctl.p = 0 => \A i \in FinitePositions : pctl.out.v <= pctl.arr[i].throughput.v

\* percentile([10, NaN, -5], 'throughput', 75) has returned 10
C12_Witness ==
  /\ pctl.called
  /\ pctl.arr = << [throughput |-> Num(10 * Unit)], [throughput |-> NaN], [throughput |-> Num(-5 * Unit)] >>
  /\ pctl.p = 75
  /\ pctl.out = Num(10 * Unit)

(***************************************************************************)
(* Properties of askLocalAI, on the state after one question               *)
(***************************************************************************)
Asked == nAsks = 1 /\ Len(aiMessages) = 3
AskedText == aiMessages[2].text
AskedLower == ToLowerCase(aiMessages[2].text)
LocalAnswer == aiMessages[3].text

\* the question names no hour and no day
NoTimeCue ==
  /\ ~Includes(AskedLower, <<"b", "e", "t", "w", "e", "e", "n">>)
  /\ ~Includes(AskedLower, <<"h", "o", "u", "r">>)
  /\ ~Includes(AskedLower, <<"a", "t", " ">>)
  /\ ~Includes(AskedLower, <<"a", "u", "g">>)

Cue5G == \/ Includes(AskedLower, <<" ", "5", "g">>)
         \/ SubSeq(AskedLower, 1, 2) = <<"5", "g">>
         \/ Includes(AskedLower, <<" ", "n", "r">>)
Cue4G == \/ Includes(AskedLower, <<" ", "4", "g">>)
         \/ SubSeq(AskedLower, 1, 2) = <<"4", "g">>
         \/ Includes(AskedLower, <<" ", "l", "t", "e">>)

\* the technologies the precedence of C13 lets through
TechsByPrecedence ==
  IF Cue5G THEN {"5G"}
  ELSE IF Cue4G THEN {"4G"}
  ELSE IF selectedTech # "All" THEN {selectedTech}
  ELSE {"4G", "5G"}

\* C13: the technology filter of askLocalAI is the 5G cue of the question,
\* else its 4G cue, else the dropdown, else none: the subset holds only
\* records of that technology, and all of them when the question names no
\* hour or day.
C13_TechFilterPrecedence ==
  Asked =>
    /\ \A i \in 1..Len(subsetSeen) : subsetSeen[i].technology \in TechsByPrecedence
    /\ NoTimeCue =>
         subsetSeen = SelectSeq(data, LAMBDA r : r.technology \in TechsByPrecedence)

\* "how many rows on 4G and 5G" asked with 4G selected: the three 5G records
C13_Witness ==
  /\ Asked
  /\ csvFile = FileSectors
  /\ selectedTech = "4G"
  /\ AskedText = <<"h", "o", "w", " ", "m", "a", "n", "y", " ", "r", "o", "w", "s", " ", "o", "n", " ", "4", "G", " ", "a", "n", "d", " ", "5", "G">>
  /\ Len(subsetSeen) = 3
  /\ LocalAnswer.kind = "count"
  /\ LocalAnswer.n = 3

\* the hours C14 gives for the questions that name hours: the range pattern
\* with its bounds ordered and clamped, else the single hour clamped
HourCases ==
  { [q |-> <<"h", "o", "w", " ", "m", "a", "n", "y", " ", "r", "o", "w", "s", " ", "b", "e", "t", "w", "e", "e", "n", " ", "8", " ", "a", "n", "d", " ", "1", "2">>, lo |-> 8, hi |-> 12],
    [q |-> <<"h", "o", "w", " ", "m", "a", "n", "y", " ", "r", "o", "w", "s", " ", "b", "e", "t", "w", "e", "e", "n", " ", "1", "5", " ", "a", "n", "d", " ", "9">>, lo |-> 9, hi |-> 15],
    [q |-> <<"c", "o", "u", "n", "t", " ", "b", "e", "t", "w", "e", "e", "n", " ", "1", "0", " ", "-", " ", "4", "0">>, lo |-> 10, hi |-> 23],
    [q |-> <<"h", "o", "w", " ", "m", "a", "n", "y", " ", "r", "o", "w", "s", " ", "a", "t", " ", "9", " ", "b", "e", "t", "w", "e", "e", "n", " ", "8", " ", "t", "o", " ", "1", "2">>, lo |-> 8, hi |-> 12],
    [q |-> <<"h", "o", "w", " ", "m", "a", "n", "y", " ", "r", "o", "w", "s", " ", "a", "t", " ", "1", "5", ":", "0", "0">>, lo |-> 15, hi |-> 15],
    [q |-> <<"c", "o", "u", "n", "t", " ", "h", "o", "u", "r", " ", "9">>, lo |-> 9, hi |-> 9],
    [q |-> <<"c", "o", "u", "n", "t", " ", "a", "t", " ", "9", "9">>, lo |-> 23, hi |-> 23],
    [q |-> <<"c", "o", "l", "u", "m", "n", "s", " ", "a", "t", " ", "3">>, lo |-> 3, hi |-> 3] }

\* C14: a question with 'between A and/to/- B' keeps the records whose hour
\* lies in [min(A', B'), max(A', B')], A' and B' clamped to [0, 23], and the
\* single-hour pattern is then not applied; a question with only 'hour N' or
\* 'at N' keeps the records whose hour is N clamped to [0, 23].
C14_HourFilter ==
  Asked =>
    \A c \in HourCases :
      AskedText = c.q =>
        subsetSeen = SelectSeq(data, LAMBDA r : /\ r.technology \in TechsByPrecedence
                                                /\ r.hour >= c.lo
                                                /\ r.hour <= c.hi)

\* "how many rows at 9 between 8 to 12" over the sectors file: the four
\* records of hours 8, 9, 10 and 12, not only the one of hour 9
C14_Witness ==
  /\ Asked
  /\ csvFile = FileSectors
  /\ selectedTech = "All"
  /\ AskedText = <<"h", "o", "w", " ", "m", "a", "n", "y", " ", "r", "o", "w", "s", " ", "a", "t", " ", "9", " ", "b", "e", "t", "w", "e", "e", "n", " ", "8", " ", "t", "o", " ", "1", "2">>
  /\ Len(subsetSeen) = 4
  /\ \E i \in 1..4 : subsetSeen[i].hour = 12
  /\ LocalAnswer.n = 4

\* the answers of the intent handlers and of the fallback summary
HandlerKinds ==
  {"columns", "count", "avgThroughput", "avgRsrp", "avgRsrq", "avgSinr",
   "class1", "top", "bottom", "percentile", "worst", "summary"}

\* a value that is a number or a quotient with a positive divisor
ProperQuotient(x) ==
  \/ x.t = "number"
  \/ x.t = "ratio" /\ x.den > 0

\* C15: when the filters leave no record the answer is the fixed
\* no-matching-rows message and no intent is evaluated, not even schema or
\* count; when they leave at least one record the answer comes from exactly
\* one handler and no quotient in it has a zero divisor.
C15_EmptySubsetShortCircuit ==
  Asked =>
    /\ subsetSeen = <<>> => LocalAnswer.kind = NoMatchingRows.kind
    /\ subsetSeen # <<>> =>
         /\ LocalAnswer.kind \in HandlerKinds
         /\ \A i \in 1..Len(LocalAnswer.vals) : ProperQuotient(LocalAnswer.vals[i])
         /\ LocalAnswer.kind \in {"top", "bottom"} =>
              \A i \in 1..Len(LocalAnswer.rows) : ProperQuotient(LocalAnswer.rows[i].mbps)

\* "columns at 3" over the sectors file: no record of hour 3, so the schema
\* is not listed
C15_Witness ==
  /\ Asked
  /\ csvFile = FileSectors
  /\ Len(data) = 7
  /\ AskedText = <<"c", "o", "l", "u", "m", "n", "s", " ", "a", "t", " ", "3">>
  /\ subsetSeen = <<>>
  /\ LocalAnswer.kind = NoMatchingRows.kind

\* the intent C16 gives for questions of the study: the first of schema,
\* count, average throughput, average RSRP, average RSRQ, average SINR,
\* class-1 coverage, top-N, bottom-N, percentile, worst RSRP whose cue the
\* question holds, and the summary when it holds none
IntentCases ==
  { [q |-> <<"c", "o", "l", "u", "m", "n", "s">>, kind |-> "columns"],
    [q |-> <<"s", "c", "h", "e", "m", "a", " ", "a", "n", "d", " ", "c", "o", "u", "n", "t", " ", "o", "f", " ", "r", "o", "w", "s">>, kind |-> "columns"],
    [q |-> <<"h", "o", "w", " ", "m", "a", "n", "y", " ", "r", "o", "w", "s">>, kind |-> "count"],
    [q |-> <<"h", "o", "w", " ", "m", "a", "n", "y", " ", "m", "e", "a", "s", "u", "r", "e", "m", "e", "n", "t", "s">>, kind |-> "count"],
    [q |-> <<"c", "o", "u", "n", "t", " ", "L", "T", "E", " ", "r", "o", "w", "s">>, kind |-> "count"],
    [q |-> <<"c", "o", "u", "n", "t", " ", "t", "h", "e", " ", "t", "o", "p", " ", "3", " ", "s", "e", "c", "t", "o", "r", "s", " ", "b", "y", " ", "t", "h", "r", "o", "u", "g", "h", "p", "u", "t">>, kind |-> "count"],
    [q |-> <<"a", "v", "e", "r", "a", "g", "e", " ", "t", "h", "r", "o", "u", "g", "h", "p", "u", "t">>, kind |-> "avgThroughput"],
    [q |-> <<"a", "v", "e", "r", "a", "g", "e", " ", "t", "h", "r", "o", "u", "g", "h", "p", "u", "t", " ", "a", "n", "d", " ", "a", "v", "e", "r", "a", "g", "e", " ", "r", "s", "r", "p">>, kind |-> "avgThroughput"],
    [q |-> <<"a", "v", "g", " ", "r", "s", "r", "p">>, kind |-> "avgRsrp"],
    [q |-> <<"a", "v", "g", " ", "r", "s", "r", "q", " ", "a", "n", "d", " ", "a", "v", "g", " ", "r", "s", "r", "p">>, kind |-> "avgRsrp"],
    [q |-> <<"a", "v", "e", "r", "a", "g", "e", " ", "r", "s", "r", "q">>, kind |-> "avgRsrq"],
    [q |-> <<"a", "v", "g", " ", "s", "i", "n", "r", " ", "a", "n", "d", " ", "a", "v", "g", " ", "r", "s", "r", "q">>, kind |-> "avgRsrq"],
    [q |-> <<"a", "v", "g", " ", "s", "i", "n", "r">>, kind |-> "avgSinr"],
    [q |-> <<"c", "l", "a", "s", "s", " ", "1", " ", "s", "h", "a", "r", "e", " ", "a", "n", "d", " ", "a", "v", "g", " ", "s", "i", "n", "r">>, kind |-> "avgSinr"],
    [q |-> <<"c", "l", "a", "s", "s", " ", "1", " ", "c", "o", "v", "e", "r", "a", "g", "e">>, kind |-> "class1"],
    [q |-> <<"c", "l", "a", "s", "s", " ", "1", " ", "s", "h", "a", "r", "e", " ", "o", "f", " ", "t", "o", "p", " ", "2", " ", "s", "e", "c", "t", "o", "r", "s", " ", "b", "y", " ", "t", "h", "r", "o", "u", "g", "h", "p", "u", "t">>, kind |-> "class1"],
    [q |-> <<"t", "o", "p", " ", "3", " ", "s", "e", "c", "t", "o", "r", "s", " ", "b", "y", " ", "t", "h", "r", "o", "u", "g", "h", "p", "u", "t">>, kind |-> "top"],
    [q |-> <<"b", "o", "t", "t", "o", "m", " ", "2", " ", "s", "e", "c", "t", "o", "r", "s", " ", "t", "o", "p", " ", "1", " ", "s", "e", "c", "t", "o", "r", "s", " ", "t", "h", "r", "o", "u", "g", "h", "p", "u", "t">>, kind |-> "top"],
    [q |-> <<"t", "o", "p", " ", "2", " ", "s", "e", "c", "t", "o", "r", "s", " ", "b", "y", " ", "t", "h", "r", "o", "u", "g", "h", "p", "u", "t", " ", "p", "e", "r", "c", "e", "n", "t", "i", "l", "e">>, kind |-> "top"],
    [q |-> <<"b", "o", "t", "t", "o", "m", " ", "2", " ", "s", "e", "c", "t", "o", "r", "s", " ", "b", "y", " ", "t", "h", "r", "o", "u", "g", "h", "p", "u", "t">>, kind |-> "bottom"],
    [q |-> <<"9", "5", "t", "h", " ", "p", "e", "r", "c", "e", "n", "t", "i", "l", "e", " ", "t", "h", "r", "o", "u", "g", "h", "p", "u", "t", " ", "o", "f", " ", "b", "o", "t", "t", "o", "m", " ", "2", " ", "s", "e", "c", "t", "o", "r", "s", " ", "b", "y", " ", "t", "h", "r", "o", "u", "g", "h", "p", "u", "t">>, kind |-> "bottom"],
    [q |-> <<"9", "5", "t", "h", " ", "p", "e", "r", "c", "e", "n", "t", "i", "l", "e", " ", "t", "h", "r", "o", "u", "g", "h", "p", "u", "t">>, kind |-> "percentile"],
    [q |-> <<"w", "o", "r", "s", "t", " ", "r", "s", "r", "p", " ", "p", "e", "r", "c", "e", "n", "t", "i", "l", "e", " ", "t", "h", "r", "o", "u", "g", "h", "p", "u", "t">>, kind |-> "percentile"],
    [q |-> <<"w", "o", "r", "s", "t", " ", "r", "s", "r", "p">>, kind |-> "worst"],
    [q |-> <<"h", "e", "l", "l", "o">>, kind |-> "summary"] }

\* C16: a question over a non-empty subset is answered by the first intent,
\* in the order schema, count, average throughput, average RSRP, average
\* RSRQ, average SINR, class-1 coverage, top-N, bottom-N, percentile, worst
\* RSRP, whose cue it holds, and by the fallback summary when it holds none.
C16_FirstMatchingIntent ==
  Asked /\ subsetSeen # <<>> =>
    \A c \in IntentCases : AskedText = c.q => LocalAnswer.kind = c.kind

\* "schema and count of rows" holds the cues of two intents and lists the schema
C16_Witness ==
  /\ Asked
  /\ csvFile = FileSectors
  /\ AskedText = <<"s", "c", "h", "e", "m", "a", " ", "a", "n", "d", " ", "c", "o", "u", "n", "t", " ", "o", "f", " ", "r", "o", "w", "s">>
  /\ subsetSeen # <<>>
  /\ LocalAnswer.kind = "columns"

\* the ranking questions of the study: the direction and N clamped to [1, 50]
RankCases ==
  { [q |-> <<"t", "o", "p", " ", "3", " ", "s", "e", "c", "t", "o", "r", "s", " ", "b", "y", " ", "t", "h", "r", "o", "u", "g", "h", "p", "u", "t">>, descending |-> TRUE, n |-> 3],
    [q |-> <<"t", "o", "p", " ", "0", " ", "s", "e", "c", "t", "o", "r", "s", " ", "b", "y", " ", "t", "h", "r", "o", "u", "g", "h", "p", "u", "t">>, descending |-> TRUE, n |-> 1],
    [q |-> <<"t", "o", "p", " ", "9", "9", " ", "s", "e", "c", "t", "o", "r", "s", " ", "b", "y", " ", "t", "h", "r", "o", "u", "g", "h", "p", "u", "t">>, descending |-> TRUE, n |-> 50],
    [q |-> <<"t", "o", "p", " ", "4", "2", "9", "4", "9", "6", "7", "2", "9", "7", " ", "s", "e", "c", "t", "o", "r", "s", " ", "b", "y", " ", "t", "h", "r", "o", "u", "g", "h", "p", "u", "t">>, descending |-> TRUE, n |-> 50],
    [q |-> <<"t", "o", "p", " ", "2", " ", "s", "e", "c", "t", "o", "r", "s", " ", "b", "y", " ", "t", "h", "r", "o", "u", "g", "h", "p", "u", "t", " ", "p", "e", "r", "c", "e", "n", "t", "i", "l", "e">>, descending |-> TRUE, n |-> 2],
    [q |-> <<"b", "o", "t", "t", "o", "m", " ", "2", " ", "s", "e", "c", "t", "o", "r", "s", " ", "b", "y", " ", "t", "h", "r", "o", "u", "g", "h", "p", "u", "t">>, descending |-> FALSE, n |-> 2] }

\* the records of the subset measured at one location
AtLocation(loc) == SelectSeq(subsetSeen, LAMBDA r : KeyText(r.location) = loc)

\* the row gives the mean throughput of the records of its location
IsSectorMean(row) ==
  LET rows == AtLocation(row.loc)
  IN  /\ rows # <<>>
      /\ Frac(row.mbps)[1] * Len(rows) = SumField(rows, "throughput") * Frac(row.mbps)[2]

\* the rows ranked as the question asks, ties in any order
Ranked(rows, descending) ==
  \A i \in 1..Len(rows) - 1 :
    IF descending THEN ~FracLess(Frac(rows[i].mbps), Frac(rows[i + 1].mbps))
    ELSE ~FracLess(Frac(rows[i + 1].mbps), Frac(rows[i].mbps))

\* C17: 'top N sectors ... throughput' lists min(N', number of locations)
\* sectors, N' being N clamped to [1, 50], each with the mean throughput of
\* its records, in non-increasing order of the mean; 'bottom N' the same in
\* non-decreasing order.
C17_RankedSectors ==
  Asked /\ subsetSeen # <<>> =>
    \A c \in RankCases :
      AskedText = c.q =>
        LET rows   == LocalAnswer.rows
            groups == {KeyText(subsetSeen[i].location) : i \in 1..Len(subsetSeen)}
        IN  /\ Len(rows) = Min(c.n, Cardinality(groups))
            /\ \A i \in 1..Len(rows) : IsSectorMean(rows[i])
            /\ \A i, j \in 1..Len(rows) : i # j => rows[i].loc # rows[j].loc
            /\ Ranked(rows, c.descending)

\* the ranking questions of the study that give no N
DefaultRankCases ==
  { [q |-> <<"t", "o", "p", " ", "s", "e", "c", "t", "o", "r", "s", " ", "b", "y", " ", "t", "h", "r", "o", "u", "g", "h", "p", "u", "t">>, kind |-> "top"],
    [q |-> <<"b", "o", "t", "t", "o", "m", " ", "s", "e", "c", "t", "o", "r", "s", " ", "b", "y", " ", "t", "h", "r", "o", "u", "g", "h", "p", "u", "t">>, kind |-> "bottom"] }

\* the number of sectors listed when the question gives no N
DefaultSectors == 5

\* C18: a top or bottom sectors question that gives no N is still answered
\* by the ranked list, with N = 5.
C18_DefaultRankCount ==
  Asked /\ subsetSeen # <<>> =>
    \A c \in DefaultRankCases :
      AskedText = c.q =>
        LET groups == {KeyText(subsetSeen[i].location) : i \in 1..Len(subsetSeen)}
        IN  /\ LocalAnswer.kind = c.kind
            /\ Len(LocalAnswer.rows) = Min(DefaultSectors, Cardinality(groups))

\* the rank used when the question gives none
DefaultPercentile == 95

\* the percentile questions of the study: N of 'Nth percentile' clamped to
\* [1, 99], the default when the question gives no N
PercentileCases ==
  { [q |-> <<"9", "5", "t", "h", " ", "p", "e", "r", "c", "e", "n", "t", "i", "l", "e", " ", "t", "h", "r", "o", "u", "g", "h", "p", "u", "t">>, p |-> 95],
    [q |-> <<"5", "0", "t", "h", " ", "p", "e", "r", "c", "e", "n", "t", "i", "l", "e", " ", "o", "f", " ", "t", "h", "r", "o", "u", "g", "h", "p", "u", "t">>, p |-> 50],
    [q |-> <<"0", "t", "h", " ", "p", "e", "r", "c", "e", "n", "t", "i", "l", "e", " ", "t", "h", "r", "o", "u", "g", "h", "p", "u", "t">>, p |-> 1],
    [q |-> <<"p", "e", "r", "c", "e", "n", "t", "i", "l", "e", " ", "t", "h", "r", "o", "u", "g", "h", "p", "u", "t">>, p |-> DefaultPercentile],
    [q |-> <<"w", "o", "r", "s", "t", " ", "r", "s", "r", "p", " ", "p", "e", "r", "c", "e", "n", "t", "i", "l", "e", " ", "t", "h", "r", "o", "u", "g", "h", "p", "u", "t">>, p |-> DefaultPercentile] }

\* C19: the rank of a percentile question is the N of 'Nth percentile'
\* clamped to [1, 99], or 95 when the question gives no N, and the answer is
\* percentile(subset, throughput, rank).
C19_PercentileRank ==
  Asked /\ subsetSeen # <<>> =>
    \A c \in PercentileCases :
      AskedText = c.q =>
        /\ LocalAnswer.kind = "percentile"
        /\ LocalAnswer.p = c.p
        /\ LocalAnswer.vals = <<percentile(subsetSeen, "throughput", c.p)>>

(***************************************************************************)
(* Properties of the assistant transcript                                  *)
(***************************************************************************)
\* the transcript keeps the messages it has, in their places
TranscriptKept ==
  /\ Len(aiMessages') >= Len(aiMessages)
  /\ SubSeq(aiMessages', 1, Len(aiMessages)) = aiMessages

\* a step that sends a question appends the user message and then the local
\* answer, and starts no remote call when the refiner is off or has no key
AskStep ==
  LET n == Len(aiMessages)
  IN  /\ Len(aiMessages') = n + 2
      /\ aiMessages'[n + 1] = [role |-> "user", text |-> Trim(aiInput)]
      /\ aiMessages'[n + 2].role = "assistant"
      /\ aiMessages'[n + 2].text.kind \in HandlerKinds \cup {"nomatch"}
      /\ (~useLLM \/ openaiKey = "") => llmCalls' = llmCalls

\* a step that sends no question appends at most one message, and only as
\* the reply of a pending remote call, not empty and other than the local
\* answer that call was given
OtherStep ==
  LET n == Len(aiMessages)
  IN  /\ Len(aiMessages') <= n + 1
      /\ Len(aiMessages') = n + 1 =>
           \E c \in BagToSet(llmCalls) :
             /\ llmCalls' = llmCalls (-) SetToBag({c})
             /\ aiMessages'[n + 1].role = "assistant"
             /\ aiMessages'[n + 1].text # Null
             /\ aiMessages'[n + 1].text # c.localAnswer

\* C20: the local answer is appended right after the user message when the
\* question is sent and stays in its place whatever the remote call does;
\* with the refiner off or without a key no call is started, and a call that
\* fails or returns nothing or the local answer itself appends nothing, so
\* the transcript still ends with the user message and the local answer; no
\* step sets an error.
C20_LocalAnswerKept ==
  [][/\ TranscriptKept
     /\ IF nAsks' = nAsks + 1 /\ Trim(aiInput) # <<>> THEN AskStep ELSE OtherStep
     /\ error' = error]_vars

\* a refined reply has arrived: it stands after the local answer, which is
\* still the third message
C20_Witness ==
  /\ nAsks = 1
  /\ llmCalls = EmptyBag
  /\ Len(aiMessages) = 4
  /\ aiMessages[2] = [role |-> "user", text |-> <<"h", "o", "w", " ", "m", "a", "n", "y", " ", "r", "o", "w", "s">>]
  /\ aiMessages[3].text.kind = "count"
  /\ aiMessages[3].text.n = 7
  /\ aiMessages[4].text = RefinedText

(***************************************************************************)
(* Header study: one more file is selected after the two-row file, with up *)
(* to MaxHeaders columns named from a pool whose names share cues.         *)
(***************************************************************************)
HeaderPool ==
  { <<"T", "I", "M", "E", "S", "T", "A", "M", "P">>, <<" ", "D", "a", "t", "e", " ">>, <<"R", "S", "R", "P">>, <<"S", "i", "g", "n", "a", "l", " ", "S", "t", "r", "e", "n", "g", "t", "h">>, <<"D", "a", "t", "a", " ", "R", "a", "t", "e">>,
    <<"C", "e", "l", "l", " ", "Q", "u", "a", "l", "i", "t", "y">>, <<"S", "N", "R">>, <<"M", "b", "p", "s">>, <<"N", "o", "t", "e", "s">> }

HeaderFiles ==
  { [name |-> "h.csv", headers |-> hs, rows |-> <<>>] :
      hs \in SeqsUpTo(HeaderPool, MaxHeaders) \ {<<>>} }

NextHeaders ==
  \/ \E file \in HeaderFiles : csvFile = FileA /\ handleCsvUpload(file)
  \/ \E p \in BagToSet(parses) : UploadComplete(p)

SpecHeaders == InitIngest /\ [][NextHeaders]_vars

\* the fields each name of the pool holds a cue of, compared without case
CuedFields(h) ==
  CASE h = <<"T", "I", "M", "E", "S", "T", "A", "M", "P">>       -> {"timestamp"}
    [] h = <<"D", "a", "t", "e">>            -> {"timestamp"}
    [] h = <<"R", "S", "R", "P">>            -> {"rsrp"}
    [] h = <<"S", "i", "g", "n", "a", "l", " ", "S", "t", "r", "e", "n", "g", "t", "h">> -> {"rsrp"}
    [] h = <<"D", "a", "t", "a", " ", "R", "a", "t", "e">>       -> {"technology", "throughput"}
    [] h = <<"C", "e", "l", "l", " ", "Q", "u", "a", "l", "i", "t", "y">>    -> {"rsrq", "location"}
    [] h = <<"S", "N", "R">>             -> {"sinr"}
    [] h = <<"M", "b", "p", "s">>            -> {"throughput"}
    [] h = <<"N", "o", "t", "e", "s">>           -> {}

\* the header detection of a file of the study has completed
HeadersDetected ==
  /\ csvFile \in HeaderFiles
  /\ parses = EmptyBag

\* the first header, in header order, that holds a cue of the field
FirstCued(f) ==
  LET at == {i \in 1..Len(csvHeaders) : f \in CuedFields(csvHeaders[i])}
  IN  IF at = {} THEN <<>>
      ELSE csvHeaders[CHOOSE i \in at : \A j \in at : i <= j]

\* C21: in the mapping proposed by handleCsvUpload each of timestamp, rsrp,
\* rsrq, sinr, technology, location and throughput is the first header, in
\* header order, that holds one of the field's cues in any case; later
\* matching headers do not overwrite it, and a field no header matches stays
\* empty.
C21_FirstHeaderWins ==
  HeadersDetected =>
    \A f \in Fields \ {"latitude", "longitude"} : fieldMapping[f] = FirstCued(f)

\* Date, TIMESTAMP, Data Rate: timestamp is Date although TIMESTAMP matches
\* too, Data Rate serves two fields, rsrp stays empty
C21_Witness ==
  /\ HeadersDetected
  /\ csvHeaders = << <<"D", "a", "t", "e">>, <<"T", "I", "M", "E", "S", "T", "A", "M", "P">>, <<"D", "a", "t", "a", " ", "R", "a", "t", "e">> >>
  /\ fieldMapping.timestamp = <<"D", "a", "t", "e">>
  /\ fieldMapping.technology = <<"D", "a", "t", "a", " ", "R", "a", "t", "e">>
  /\ fieldMapping.throughput = <<"D", "a", "t", "a", " ", "R", "a", "t", "e">>
  /\ fieldMapping.rsrp = <<>>

(***************************************************************************)
(* Properties of the mapping an ingestion pass uses                        *)
(***************************************************************************)
\* Apply starts a pass that holds the selected file and the mapping of that
\* moment, edits included
PassCapturesMapping ==
  nApplies' = nApplies + 1 =>
    parses' = parses (+) SetToBag({[kind |-> "apply", file |-> csvFile, mapping |-> fieldMapping]})

\* a pass that completes over some rows leaves the records of those rows
\* under the mapping it holds, whatever the mapping has become since
PassUsesItsMapping ==
  \A p \in BagToSet(parses) :
    (p.kind = "apply" /\ parses' = parses (-) SetToBag({p}) /\ error' # ErrParse) =>
      LET rows == PapaParse(p.file, FALSE).data
      IN  rows # <<>> => \E seed \in Seeds : data' = processCsvData(rows, p.mapping, tz, seed)

\* a step that starts or ends a pass leaves the mapping alone
PassKeepsMapping ==
  (nApplies' # nApplies \/ data' # data) => fieldMapping' = fieldMapping

\* C22: a pass started by applyCsvData normalizes its rows with the mapping
\* as it was when Apply was invoked: an edit made before Apply is used, an
\* edit made while the pass is in flight is not, and the pass never changes
\* the mapping.
C22_PassUsesMappingAtApply ==
  [][PassCapturesMapping /\ PassUsesItsMapping /\ PassKeepsMapping]_vars

\* the rsrp row of the mapping was cleared before Apply: the pass over the
\* two-row file stored the default rsrp instead of the column's -65
C22_Witness ==
  /\ csvFile = FileA
  /\ nEdits = 1
  /\ nApplies = 1
  /\ parses = EmptyBag
  /\ fieldMapping.rsrp = <<>>
  /\ Len(data) = 2
  /\ data[1].rsrp = Num(-800000)

(***************************************************************************)
(* Properties of the parses in flight                                      *)
(***************************************************************************)
\* C23: while a CSV parse started by handleCsvUpload or applyCsvData has not
\* completed, isLoading is true, so Apply is disabled and no second
\* ingestion pass can start.
C23_LoadingWhileParsing ==
  parses # EmptyBag => isLoading

\* a header-detection parse is in flight
DetectingHeaders == \E p \in BagToSet(parses) : p.kind = "upload"

\* the headers of the selected file as the header-detection parse reads them
SelectedHeaders == PapaParse(csvFile, TRUE).fields

\* C24: whenever no header-detection parse is in flight, csvHeaders and the
\* proposed mapping are those of the selected file, the one Apply would
\* ingest, in whatever order the parses of successively selected files
\* completed, and every non-empty mapping entry names a header of that file.
C24_HeadersOfSelectedFile ==
  (csvFile # NoFile /\ ~DetectingHeaders) =>
    /\ csvHeaders = SelectedHeaders
    /\ fieldMapping = AutoMapping(SelectedHeaders)
    /\ \A f \in Fields :
         fieldMapping[f] # <<>> =>
           \E i \in 1..Len(SelectedHeaders) : SelectedHeaders[i] = fieldMapping[f]

(***************************************************************************)
(* Properties of the demo dataset                                          *)
(***************************************************************************)
\* C25: once the mount effect has run there is no state in which dataSource
\* is 'synthetic', no parse is in flight and the Dataset is empty, so that
\* 'Use Demo Data' always brings the generated dataset back, also after a
\* failed CSV ingestion.
C25_DemoDataRestored ==
  (~effectPending /\ dataSource = "synthetic" /\ parses = EmptyBag) => data # <<>>

(***************************************************************************)
(* Properties relating the two parses of a file                            *)
(***************************************************************************)
\* the rows the apply pass would read from the selected file
SelectedRows == PapaParse(csvFile, FALSE).data

\* C26: every column name the header-detection pass offers for the mapping
\* is a key of the rows the apply pass produces for the same file, so that a
\* value present in a mapped column is read and not taken as missing.
C26_OfferedColumnsAreRowKeys ==
  (csvFile # NoFile /\ csvHeaders = PapaParse(csvFile, TRUE).fields /\ SelectedRows # <<>>) =>
    \A i \in 1..Len(csvHeaders) : csvHeaders[i] \in DOMAIN SelectedRows[1]

\* the places of the user messages and of the refinement messages: an
\* assistant message that does not directly follow a user message
UserAt == {i \in 1..Len(aiMessages) : aiMessages[i].role = "user"}
RefinementAt ==
  {i \in 2..Len(aiMessages) : aiMessages[i].role = "assistant" /\ aiMessages[i - 1].role # "user"}

\* the transcript is the greeting, then for each question its user message
\* directly followed by its own local answer, with at most one refinement
\* per question, received or still awaited
TranscriptShape ==
  /\ aiMessages[1] = Greeting
  /\ \A i \in UserAt :
       /\ aiMessages[i].text # <<>>
       /\ i < Len(aiMessages)
       /\ \E question \in {aiMessages[i].text} :
            aiMessages[i + 1] = [role |-> "assistant", text |-> askLocalAI(question)]
  /\ \A i \in RefinementAt : aiMessages[i].text \notin {Null, NoMatchingRows}
  /\ Cardinality(RefinementAt) + BagCardinality(llmCalls) <= Cardinality(UserAt)

\* a click on Ask with a blank question box adds nothing and starts no call
BlankAskStep ==
  (nAsks' = nAsks + 1 /\ Trim(aiInput) = <<>>) =>
    /\ aiMessages' = aiMessages
    /\ llmCalls' = llmCalls

\* a click on Ask with a question adds two messages, any other step at most
\* one, the reply of a call that is then no longer awaited
QuestionStep ==
  IF nAsks' = nAsks + 1 /\ Trim(aiInput) # <<>>
  THEN /\ Len(aiMessages') = Len(aiMessages) + 2
       /\ BagCardinality(llmCalls') <= BagCardinality(llmCalls) + 1
  ELSE /\ Len(aiMessages') <= Len(aiMessages) + 1
       /\ Len(aiMessages') = Len(aiMessages) + 1 =>
            /\ BagCardinality(llmCalls') = BagCardinality(llmCalls) - 1
            /\ \E c \in BagToSet(llmCalls) : aiMessages'[Len(aiMessages')].text # c.localAnswer

\* C27: the chat transcript is append-only under any interleaving of
\* questions and remote responses: no message is removed or rewritten; each
\* non-blank question adds its user message directly followed by its own
\* local answer; each question adds at most one refinement message, and only
\* for a non-empty reply other than the local answer; a blank question adds
\* nothing.
C27_TranscriptAppendOnly ==
  /\ []TranscriptShape
  /\ [][TranscriptKept /\ BlankAskStep /\ QuestionStep]_vars

\* "hello" was answered and then refined, and the last click on Ask, with a
\* blank question box, added nothing and left the box as it was
C27_Witness ==
  /\ nAsks = MaxAsks
  /\ llmCalls = EmptyBag
  /\ aiInput = <<" ", " ">>
  /\ Len(aiMessages) = 4
  /\ aiMessages[2].text = <<"h", "e", "l", "l", "o">>
  /\ aiMessages[3].text.kind = "summary"
  /\ aiMessages[4].text = RefinedText

====
